---------------------------- MODULE Spec2Model ----------------------------
(***************************************************************************)
(* A model of lindend/distdb: the LSM tree (memtable + layers + background *)
(* compactor), the skiplist behind the memtable, the write-ahead log, the  *)
(* SSTable builder / reader / iterator and the k-way merge.                *)
(*                                                                         *)
(* Strings and byte slices are sequences of byte values; files are byte    *)
(* sequences; a Go pointer that may be nil is a sequence of length 0 or 1. *)
(***************************************************************************)
EXTENDS Integers, Sequences, FiniteSets, TLC

VARIABLES
    tree,       \* the LsmTree object of the running process
    walFiles,   \* rootDir: wal-<name>.log files
    sstFiles,   \* rootDir: the five artifacts of each SSTable
    manifest,   \* rootDir: lsm.json
    alive,      \* FALSE once the process has died of a panic
    mp,         \* position of the mergeProcess goroutine
    nextId,     \* next object identity for a chunk that is allocated
    reopens,    \* how many times the process has been restarted
    sets,       \* how many times Set has been called
    tombs,      \* how many tombstones have been set
    ret,        \* what the last NewLsmTree or Set returned
    written,    \* history: the last record written for each key
    mIn,        \* k-way merge: the input iterators
    mOut,       \* k-way merge: the stream written to the builder
    locks,      \* the sync.RWMutex of each layer
    getPc,      \* position of each goroutine that calls Get
    mlPc,       \* position of mergeLayer in its locking
    wRecs,      \* WAL on its own: the records the caller appends
    wMode,      \* WAL on its own: whether the handle NewWAL opened can be written
    wFile,      \* WAL on its own: the bytes of the file
    wPc,        \* WAL on its own: position of the caller
    wOut,       \* WAL on its own: what LoadWAL returned
    sIn,        \* SSTable on its own: the entries written to the builder
    sBlock,     \* SSTable on its own: sparseIndexBlockSize of the builder
    sTbl,       \* SSTable on its own: the table Build returned
    sOut,       \* SSTable on its own: what the last Iterator or Read gave
    kList,      \* skiplist on its own: the SkipList
    kHist,      \* skiplist on its own: history, the Insert calls made
    kOut,       \* skiplist on its own: what the last call returned
    cChunk,     \* memtable on its own: the skiplistChunk
    cFiles,     \* memtable on its own: its WAL file
    cOut,       \* memtable on its own: what the last set returned
    bTbl,       \* builder on its own: the SSTableBuilder
    bOut,       \* builder on its own: what the last Write returned
    lList,      \* linked list on its own: the LinkedList and its nodes
    lOut,       \* linked list on its own: the calls made, their abstract result
    rMem,       \* rotation: the writes to tree.rootChunk and layers[0].chunks
    rSet,       \* rotation: position of the goroutine that calls Set
    rGet        \* rotation: position of the goroutine that calls Get

treeVars == <<tree, walFiles, sstFiles, manifest, alive, mp, nextId, reopens, sets, tombs,
             ret, written>>
mergeVars == <<mIn, mOut>>
lockVars == <<locks, getPc, mlPc>>
walVars == <<wRecs, wMode, wFile, wPc, wOut>>
sstVars == <<sIn, sBlock, sTbl, sOut>>
skipVars == <<kList, kHist, kOut>>
chunkVars == <<cChunk, cFiles, cOut>>
builderVars == <<bTbl, bOut>>
listVars == <<lList, lOut>>
rotateVars == <<rMem, rSet, rGet>>
otherVars == <<mergeVars, lockVars, walVars, sstVars, skipVars, chunkVars, builderVars, listVars, rotateVars>>
exceptMerge == <<treeVars, lockVars, walVars, sstVars, skipVars, chunkVars, builderVars, listVars, rotateVars>>
exceptLock == <<treeVars, mergeVars, walVars, sstVars, skipVars, chunkVars, builderVars, listVars, rotateVars>>
exceptWal == <<treeVars, mergeVars, lockVars, sstVars, skipVars, chunkVars, builderVars, listVars, rotateVars>>
exceptSst == <<treeVars, mergeVars, lockVars, walVars, skipVars, chunkVars, builderVars, listVars, rotateVars>>
exceptSkip == <<treeVars, mergeVars, lockVars, walVars, sstVars, chunkVars, builderVars, listVars, rotateVars>>
exceptChunk == <<treeVars, mergeVars, lockVars, walVars, sstVars, skipVars, builderVars, listVars, rotateVars>>
exceptBuilder == <<treeVars, mergeVars, lockVars, walVars, sstVars, skipVars, chunkVars, listVars, rotateVars>>
exceptList == <<treeVars, mergeVars, lockVars, walVars, sstVars, skipVars, chunkVars,
               builderVars, rotateVars>>
exceptRotate == <<mergeVars, lockVars, walVars, sstVars, skipVars, chunkVars,
                 builderVars, listVars>>
vars == <<treeVars, otherVars>>

----------------------------------------------------------------------------
(* Bounds of the model *)

\* distinct 6-character names randomString can return
NumRandNames == 3
\* chunk objects allocated over a run: by the opens, the rotations, the merges
MaxChunks == 5
\* restarts of the process
MaxReopens == 1
\* layers of a fresh tree (the source has 4: maxChunks 4, 8, 4, 0)
NumLayers == 2
\* maxChunks of every layer but the last (the source has 4, 8, 4)
LayerMaxChunks == 1
\* maxRootChunkSize of a fresh tree (the source has 16 MiB)
MaxRootChunkSize == 1
\* calls of Set
MaxSets == 4
\* tombstones set
MaxTombstones == 1
\* input iterators of one k-way merge
MaxMergeInputs == 2
\* entries one input iterator of the k-way merge yields
MaxMergeLen == 2
\* goroutines that call Get at the same time
MaxReaders == 2
\* records appended to the WAL under test
MaxWalRecords == 2
\* entries written to the SSTable builder under test
MaxSstEntries == 3
\* Insert calls on the skiplist under test
MaxInserts == 3
\* set calls on the memtable under test
MaxChunkSets == 3
\* calls on the linked list under test
MaxListOps == 5
\* Write calls on the builder under test
MaxBuilderWrites == 4
\* numLayers of the skiplist under test (the tests have 4, the memtable 16)
SkipLayers == 2
\* the small sparseIndexBlockSize of the builder under test: more than one
\* index entry of a one-byte key (25 bytes), so that anchors differ in how
\* many entries they cover
SmallBlockSize == 26

----------------------------------------------------------------------------
(* Program constants *)

RecordKindWrite == 4096
RecordKindDelete == 4097
chunkTypeSkiplist == 1
chunkTypeSSTable == 2
dataEntry == 1
defaultSparseIndexBlockSize == 8192
\* maxChunks of the last layer of a fresh tree
LastLayerMaxChunks == 0

----------------------------------------------------------------------------
(* Strings and bytes *)

\* Go's string comparison a < b: lexicographic over the bytes
RECURSIVE StrLess(_, _)
StrLess(a, b) ==
    IF b = <<>> THEN FALSE
    ELSE IF a = <<>> THEN TRUE
    ELSE IF a[1] < b[1] THEN TRUE
    ELSE IF a[1] > b[1] THEN FALSE
    ELSE StrLess(Tail(a), Tail(b))

StrLeq(a, b) == a = b \/ StrLess(a, b)

\* binary.BigEndian.PutUint64 for the values the model writes (below 2^16)
PutUint64(n) == <<0, 0, 0, 0, 0, 0, (n \div 256) % 256, n % 256>>

\* a length no file of the model reaches: stands for every value >= 2^24
HugeLen == 256 * 65536

\* binary.BigEndian.Uint64
Uint64(b) ==
    IF b[1] # 0 \/ b[2] # 0 \/ b[3] # 0 \/ b[4] # 0 \/ b[5] # 0 THEN HugeLen
    ELSE b[6] * 65536 + b[7] * 256 + b[8]

\* a uint64 counter is kept as the signed number of the same bit pattern, so a
\* wrap below zero shows as a negative number: a > b on the unsigned values
UintGreater(a, b) ==
    IF a < 0 THEN (b >= 0 \/ a > b) ELSE (b >= 0 /\ a > b)

Keys == {<<97>>, <<98>>}
Values == {<<120>>, <<121>>}
\* randomFileChars, and the strings randomString returns: one character
\* stands for the six that the source draws
randomFileChars ==
    <<97, 98, 99, 100, 101, 102, 103, 104, 105, 106, 107, 108, 109, 110, 111, 112,
      113, 114, 115, 116, 117, 118, 119, 120, 121, 122, 49, 50, 51, 52, 53, 54, 55,
      56, 57, 48>>
RandNames == {randomFileChars[k] : k \in 1..NumRandNames}

----------------------------------------------------------------------------
(* collections.SkipList[string, skiplistEntry]                              *)
(*                                                                          *)
(* The list is its level-0 chain: elems, ascending by key. The towers above *)
(* level 0 only shorten the search; the node the search ends on (the last   *)
(* node with a smaller key) is the same for every choice of tower heights,  *)
(* so randomNumLevels does not show in the model. head is the value pointer *)
(* of the head node (nil at construction).                                  *)

NewSkipList == [head |-> <<>>, elems |-> <<>>, numEntries |-> 0]

\* how many nodes the search of Get and Insert passes: those with a smaller key
SkipSearch(l, key) == Cardinality({i \in 1..Len(l.elems) : StrLess(l.elems[i].key, key)})

\* SkipList.Get: (value pointer, exists)
SkipGet(l, key) ==
    LET n == SkipSearch(l, key) IN
    IF n < Len(l.elems) /\ l.elems[n + 1].key = key
    THEN [value |-> <<l.elems[n + 1].value>>, exists |-> TRUE]
    ELSE [value |-> <<>>, exists |-> FALSE]

\* SkipList.Insert: the list afterwards and the returned old-value pointer.
\* On an existing key the code reads and writes node.value, where node is the
\* node before the one that holds the key (the head when the key is the first).
SkipInsert(l, key, value) ==
    LET n == SkipSearch(l, key) IN
    IF n < Len(l.elems) /\ l.elems[n + 1].key = key
    THEN IF n = 0
         THEN [list |-> [l EXCEPT !.head = <<value>>], old |-> l.head]
         ELSE [list |-> [l EXCEPT !.elems[n].value = value],
               old |-> <<l.elems[n].value>>]
    ELSE [list |-> [l EXCEPT
                      !.elems = SubSeq(l.elems, 1, n)
                                  \o <<[key |-> key, value |-> value]>>
                                  \o SubSeq(l.elems, n + 1, Len(l.elems)),
                      !.numEntries = @ + 1],
          old |-> <<>>]

\* SkipList.Iterate and SkiplistElement.Next to the end: the (key, value) pairs
SkipIterate(l) == l.elems

----------------------------------------------------------------------------
(* wal.WAL: a file of one record per line *)

NoWalFile == [exists |-> FALSE, entries |-> <<>>]

\* NewWAL: os.OpenFile(O_APPEND|O_CREATE) creates the file when it is absent
NewWAL(files, name) ==
    IF files[name].exists THEN files
    ELSE [files EXCEPT ![name] = [exists |-> TRUE, entries |-> <<>>]]

\* LoadWAL: the entries, oldest first; a missing file is an error (nil entries)
LoadWAL(files, name) == IF files[name].exists THEN files[name].entries ELSE <<>>

\* WAL.Write on an open handle: the record lands in the file the handle was
\* opened on, which is files[name] unless that file has been removed since
WALWrite(files, name, kind, key, data) ==
    IF files[name].exists
    THEN [files EXCEPT ![name].entries =
              Append(@, [Kind |-> kind, Key |-> key, Data |-> data])]
    ELSE files

\* WAL.Delete: close and os.Remove
WALDelete(files, name) == [files EXCEPT ![name] = NoWalFile]

----------------------------------------------------------------------------
(* lsmtree.skiplistChunk: the memtable *)

\* newSkipListChunk, the replay loop: Insert of every WAL entry in append order
RECURSIVE ReplayWAL(_, _)
ReplayWAL(l, entries) ==
    IF entries = <<>> THEN l
    ELSE ReplayWAL(SkipInsert(l, Head(entries).Key,
                              [kind |-> Head(entries).Kind,
                               data |-> Head(entries).Data]).list,
                   Tail(entries))

\* newSkipListChunk: the error of LoadWAL is dropped, dataSize starts at 0
\* whatever the replay inserted
newSkipListChunk(files, name) ==
    [files |-> NewWAL(files, name),
     list |-> ReplayWAL(NewSkipList, LoadWAL(files, name)),
     dataSize |-> 0]

\* skiplistChunk.get
skiplistChunkGet(list, key) ==
    LET r == SkipGet(list, key) IN
    IF ~r.exists \/ r.value = <<>>
    THEN [kind |-> 0, data |-> <<>>, exists |-> FALSE, err |-> FALSE, panic |-> FALSE]
    ELSE [kind |-> r.value[1].kind, data |-> r.value[1].data, exists |-> TRUE,
          err |-> FALSE, panic |-> FALSE]

\* skiplistChunk.set, the part behind the WAL: Insert, and dataSize grown by
\* the difference to the value Insert returned
skiplistChunkInsert(c, key, kind, data) ==
    LET ins == SkipInsert(c.list, key, [kind |-> kind, data |-> data])
        delta == IF ins.old # <<>>
                 THEN Len(data) - Len(ins.old[1].data)
                 ELSE Len(data)
    IN [c EXCEPT !.list = ins.list, !.dataSize = @ + delta]

\* skiplistChunk.set: c is the chunk, walOk whether the append to the WAL works
skiplistChunkSet(c, files, key, kind, data, walOk) ==
    IF ~walOk THEN [chunk |-> c, files |-> files, err |-> TRUE]
    ELSE [chunk |-> skiplistChunkInsert(c, key, kind, data),
          files |-> WALWrite(files, c.name, kind, key, data),
          err |-> FALSE]

\* skiplistChunk.iterator followed to the end: (kind, key, data) of every node
RECURSIVE skiplistChunkEntries(_)
skiplistChunkEntries(elems) ==
    IF elems = <<>> THEN <<>>
    ELSE <<[kind |-> Head(elems).value.kind, key |-> Head(elems).key,
            data |-> Head(elems).value.data]>>
         \o skiplistChunkEntries(Tail(elems))

----------------------------------------------------------------------------
(* encoding/json and encoding/base64, as far as the WAL and the sparse      *)
(* index of an SSTable use them: strings, numbers, byte slices              *)

\* utf8.RuneError, U+FFFD
RuneError == 65533

\* strconv.AppendUint: the decimal digits of n
RECURSIVE FormatUint(_)
FormatUint(n) ==
    IF n < 10 THEN <<48 + n>> ELSE FormatUint(n \div 10) \o <<48 + (n % 10)>>

\* the number that the decimal digits s stand for
RECURSIVE ParseUint(_)
ParseUint(s) ==
    IF s = <<>> THEN 0
    ELSE (10 * ParseUint(SubSeq(s, 1, Len(s) - 1))) + (s[Len(s)] - 48)

\* utf8: the length of the encoding that starts with byte b, 0 if none does
Utf8Size(b) ==
    IF b < 128 THEN 1
    ELSE IF b < 194 THEN 0
    ELSE IF b < 224 THEN 2
    ELSE IF b < 240 THEN 3
    ELSE IF b < 245 THEN 4
    ELSE 0

\* utf8.DecodeRune at the head of s (not empty): the code point and its
\* width, (RuneError, 1) for bytes that are no encoding; lo and hi are the
\* least and the greatest second byte after the first byte
DecodeRune(s) ==
    LET n == Utf8Size(s[1])
        lo == IF s[1] = 224 THEN 160 ELSE IF s[1] = 240 THEN 144 ELSE 128
        hi == IF s[1] = 237 THEN 159 ELSE IF s[1] = 244 THEN 143 ELSE 191
    IN IF n = 1 THEN [r |-> s[1], size |-> 1]
       ELSE IF \/ n = 0
               \/ Len(s) < n
               \/ s[2] < lo
               \/ s[2] > hi
               \/ \E k \in 3..n : s[k] < 128 \/ s[k] > 191
       THEN [r |-> RuneError, size |-> 1]
       ELSE IF n = 2
       THEN [r |-> ((s[1] - 192) * 64) + (s[2] - 128), size |-> 2]
       ELSE IF n = 3
       THEN [r |-> ((s[1] - 224) * 4096) + ((s[2] - 128) * 64) + (s[3] - 128),
             size |-> 3]
       ELSE [r |-> ((s[1] - 240) * 262144) + ((s[2] - 128) * 4096)
                      + ((s[3] - 128) * 64) + (s[4] - 128),
             size |-> 4]

\* utf8.AppendRune
EncodeRune(r) ==
    IF r < 128 THEN <<r>>
    ELSE IF r < 2048 THEN <<192 + (r \div 64), 128 + (r % 64)>>
    ELSE IF r >= 55296 /\ r <= 57343 THEN <<239, 191, 189>>
    ELSE IF r < 65536
    THEN <<224 + (r \div 4096), 128 + ((r \div 64) % 64), 128 + (r % 64)>>
    ELSE <<240 + (r \div 262144), 128 + ((r \div 4096) % 64),
           128 + ((r \div 64) % 64), 128 + (r % 64)>>

\* the value of the hexadecimal digit b (-1: no digit)
HexValue(b) ==
    IF b >= 48 /\ b <= 57 THEN b - 48
    ELSE IF b >= 97 /\ b <= 102 THEN b - 87
    ELSE IF b >= 65 /\ b <= 70 THEN b - 55
    ELSE 0 - 1

\* the four hexadecimal digits of r behind \u
Hex4(r) ==
    LET digit == [d \in 0..15 |-> IF d < 10 THEN 48 + d ELSE 87 + d]
    IN <<digit[r \div 4096], digit[(r \div 256) % 16], digit[(r \div 16) % 16],
         digit[r % 16]>>

\* encoding/json: the ASCII bytes written as they are (escapeHTML is on)
htmlSafe(b) == b >= 32 /\ b \notin {34, 38, 60, 62, 92}

\* encoding/json: the bytes written as a backslash and one character
ShortEscapes ==
    (34 :> 34) @@ (92 :> 92) @@ (8 :> 98) @@ (12 :> 102) @@ (10 :> 110) @@
    (13 :> 114) @@ (9 :> 116)

\* encoding/json: what a backslash and one character stand for
Unescapes ==
    (34 :> 34) @@ (92 :> 92) @@ (47 :> 47) @@ (98 :> 8) @@ (102 :> 12) @@
    (110 :> 10) @@ (114 :> 13) @@ (116 :> 9)

\* encoding/json appendString, between the quotes: a string is coerced to
\* valid UTF-8, every byte that is no encoding becomes U+FFFD
RECURSIVE appendString(_)
appendString(s) ==
    IF s = <<>> THEN <<>>
    ELSE IF s[1] < 128
    THEN (IF htmlSafe(s[1]) THEN <<s[1]>>
          ELSE IF s[1] \in DOMAIN ShortEscapes THEN <<92, ShortEscapes[s[1]]>>
          ELSE <<92, 117>> \o Hex4(s[1]))
         \o appendString(Tail(s))
    ELSE LET d == DecodeRune(s)
         IN (IF d.r = RuneError /\ d.size = 1 THEN <<92, 117>> \o Hex4(RuneError)
             ELSE IF d.r \in {8232, 8233} THEN <<92, 117>> \o Hex4(d.r)
             ELSE SubSeq(s, 1, d.size))
            \o appendString(SubSeq(s, d.size + 1, Len(s)))

\* base64.StdEncoding: the character of the value v, the value of the
\* character c (-1: none)
B64Char(v) ==
    IF v < 26 THEN 65 + v
    ELSE IF v < 52 THEN 71 + v
    ELSE IF v < 62 THEN v - 4
    ELSE IF v = 62 THEN 43
    ELSE 47

B64Value(c) ==
    IF c >= 65 /\ c <= 90 THEN c - 65
    ELSE IF c >= 97 /\ c <= 122 THEN c - 71
    ELSE IF c >= 48 /\ c <= 57 THEN c + 4
    ELSE IF c = 43 THEN 62
    ELSE IF c = 47 THEN 63
    ELSE 0 - 1

\* base64.StdEncoding.EncodeToString
RECURSIVE EncodeToString(_)
EncodeToString(d) ==
    IF d = <<>> THEN <<>>
    ELSE IF Len(d) = 1
    THEN <<B64Char(d[1] \div 4), B64Char((d[1] % 4) * 16), 61, 61>>
    ELSE IF Len(d) = 2
    THEN <<B64Char(d[1] \div 4), B64Char(((d[1] % 4) * 16) + (d[2] \div 16)),
           B64Char((d[2] % 16) * 4), 61>>
    ELSE <<B64Char(d[1] \div 4), B64Char(((d[1] % 4) * 16) + (d[2] \div 16)),
           B64Char(((d[2] % 16) * 4) + (d[3] \div 64)), B64Char(d[3] % 64)>>
         \o EncodeToString(SubSeq(d, 4, Len(d)))

\* a result that is bytes, put behind the bytes b
Prepend(b, r) == IF r.ok THEN [r EXCEPT !.bytes = b \o @] ELSE r

\* base64.StdEncoding.DecodeString
RECURSIVE DecodeString(_)
DecodeString(s) ==
    IF s = <<>> THEN [ok |-> TRUE, bytes |-> <<>>]
    ELSE IF Len(s) < 4 \/ B64Value(s[1]) < 0 \/ B64Value(s[2]) < 0
    THEN [ok |-> FALSE, bytes |-> <<>>]
    ELSE IF s[3] = 61
    THEN [ok |-> s[4] = 61 /\ Len(s) = 4,
          bytes |-> <<(B64Value(s[1]) * 4) + (B64Value(s[2]) \div 16)>>]
    ELSE IF B64Value(s[3]) < 0 THEN [ok |-> FALSE, bytes |-> <<>>]
    ELSE IF s[4] = 61
    THEN [ok |-> Len(s) = 4,
          bytes |-> <<(B64Value(s[1]) * 4) + (B64Value(s[2]) \div 16),
                      ((B64Value(s[2]) % 16) * 16) + (B64Value(s[3]) \div 4)>>]
    ELSE IF B64Value(s[4]) < 0 THEN [ok |-> FALSE, bytes |-> <<>>]
    ELSE Prepend(<<(B64Value(s[1]) * 4) + (B64Value(s[2]) \div 16),
                   ((B64Value(s[2]) % 16) * 16) + (B64Value(s[3]) \div 4),
                   ((B64Value(s[3]) % 4) * 64) + B64Value(s[4])>>,
                 DecodeString(SubSeq(s, 5, Len(s))))

\* encoding/json unquote: the string whose text starts at position j of s,
\* behind the opening quote, up to the closing quote; next is the position
\* of that quote
RECURSIVE unquote(_, _)
unquote(s, j) ==
    IF j > Len(s) \/ s[j] < 32 THEN [ok |-> FALSE, bytes |-> <<>>, next |-> j]
    ELSE IF s[j] = 34 THEN [ok |-> TRUE, bytes |-> <<>>, next |-> j]
    ELSE IF s[j] = 92
    THEN IF j + 1 > Len(s) THEN [ok |-> FALSE, bytes |-> <<>>, next |-> j]
         ELSE IF s[j + 1] = 117
         THEN IF j + 5 > Len(s) \/ \E k \in 2..5 : HexValue(s[j + k]) < 0
              THEN [ok |-> FALSE, bytes |-> <<>>, next |-> j]
              ELSE Prepend(EncodeRune((HexValue(s[j + 2]) * 4096)
                                      + (HexValue(s[j + 3]) * 256)
                                      + (HexValue(s[j + 4]) * 16)
                                      + HexValue(s[j + 5])),
                           unquote(s, j + 6))
         ELSE IF s[j + 1] \in DOMAIN Unescapes
         THEN Prepend(<<Unescapes[s[j + 1]]>>, unquote(s, j + 2))
         ELSE [ok |-> FALSE, bytes |-> <<>>, next |-> j]
    ELSE IF s[j] < 128 THEN Prepend(<<s[j]>>, unquote(s, j + 1))
    ELSE LET d == DecodeRune(SubSeq(s, j, Len(s)))
         IN Prepend(IF d.r = RuneError /\ d.size = 1 THEN EncodeRune(RuneError)
                    ELSE SubSeq(s, j, j + d.size - 1),
                    unquote(s, j + d.size))

----------------------------------------------------------------------------
(* sstable.SSTableBuilder *)

\* NewSSTable: bloom.NewWithEstimates is kept as the set of keys added
NewSSTable(blockSize) ==
    [filter |-> {}, data |-> <<>>, dataPosition |-> 0,
     index |-> <<>>, indexPosition |-> 0,
     sparseIndex |-> <<>>, sparseIndexBlockSize |-> blockSize,
     built |-> FALSE, previousKey |-> <<>>, numEntries |-> 0]

\* SSTableBuilder.writeIndexEntry: the bytes appended to the index
writeIndexEntry(s, key, kind) ==
    PutUint64(kind) \o PutUint64(Len(key)) \o key \o PutUint64(s.dataPosition)

\* SSTableBuilder.writeDataEntry: the bytes appended to the data file
writeDataEntry(data) == <<dataEntry>> \o PutUint64(Len(data)) \o data

\* currentSparseIndexBlockSize of a builder that never reports a full block
currentSparseIndexBlockSize_Zero(s) == 0

\* SSTableBuilder.currentSparseIndexBlockSize
currentSparseIndexBlockSize(s) ==
    IF Len(s.sparseIndex) = 0 THEN s.sparseIndexBlockSize
    ELSE s.indexPosition - s.sparseIndex[Len(s.sparseIndex)].Offset

\* SSTableBuilder.Write: the builder afterwards and whether an error came back
BuilderWrite(s, key, kind, data) ==
    IF s.built THEN [b |-> s, err |-> TRUE]
    ELSE IF StrLess(key, s.previousKey) THEN [b |-> s, err |-> TRUE]
    ELSE LET ie == writeIndexEntry(s, key, kind)
             de == writeDataEntry(data)
         IN [b |-> [s EXCEPT
                      !.previousKey = key,
                      !.sparseIndex =
                          IF s.sparseIndexBlockSize <= currentSparseIndexBlockSize(s)
                          THEN Append(@, [Key |-> key, Offset |-> s.indexPosition])
                          ELSE @,
                      !.index = @ \o ie,
                      !.indexPosition = @ + Len(ie),
                      !.data = @ \o de,
                      !.dataPosition = @ + Len(de),
                      !.filter = @ \cup {key},
                      !.numEntries = @ + 1],
             err |-> FALSE]

NoSstFile ==
    [exists |-> FALSE, index |-> <<>>, data |-> <<>>, spindex |-> <<>>,
     bloom |-> {}, meta |-> 0]

\* SSTableBuilder.saveSparseIndex: json.Encoder.Encode of the anchors, each
\* key (field k) as the text between the quotes of its JSON string
saveSparseIndex(sp) ==
    [i \in 1..Len(sp) |-> [k |-> appendString(sp[i].Key), o |-> sp[i].Offset]]

\* SSTableBuilder.Build: the five artifacts on disk
BuildFiles(s) ==
    [exists |-> TRUE, index |-> s.index, data |-> s.data,
     spindex |-> saveSparseIndex(s.sparseIndex), bloom |-> s.filter,
     meta |-> s.numEntries]

----------------------------------------------------------------------------
(* sstable.SSTable *)

NoTable ==
    [filter |-> {}, data |-> <<>>, index |-> <<>>, sparseIndex |-> <<>>,
     numEntries |-> 0, closed |-> TRUE]

\* loadSparseIndex: json.Decoder.Decode of the file saveSparseIndex wrote
loadSparseIndex(file) ==
    [i \in 1..Len(file) |->
        [Key |-> unquote(file[i].k \o <<34>>, 1).bytes, Offset |-> file[i].o]]

\* LoadSSTable of artifacts that exist: the files mapped, the rest in memory
LoadSSTable(f) ==
    [filter |-> f.bloom, data |-> f.data, index |-> f.index,
     sparseIndex |-> loadSparseIndex(f.spindex), numEntries |-> f.meta,
     closed |-> FALSE]

\* SSTable.Delete, the in-memory part: both mappings closed
CloseTable(t) == [t EXCEPT !.closed = TRUE]

\* mmap.ReaderAt.Len of the index: 0 once the mapping is closed
IndexLen(t) == IF t.closed THEN 0 ELSE Len(t.index)

\* mmap.ReaderAt.ReadAt of n bytes at off: an error on a closed mapping, on an
\* offset outside the file and on a short read
ReadAt(closed, bytes, n, off) ==
    IF closed \/ off < 0 \/ off > Len(bytes) \/ n >= HugeLen \/ off + n > Len(bytes)
    THEN [ok |-> FALSE, bytes |-> <<>>]
    ELSE [ok |-> TRUE, bytes |-> SubSeq(bytes, off + 1, off + n)]

\* SSTable.getDataEntry
getDataEntry(t, offset) ==
    LET tag == ReadAt(t.closed, t.data, 1, offset)
        num == ReadAt(t.closed, t.data, 8, offset + 1)
    IN IF ~tag.ok \/ ~num.ok THEN [ok |-> FALSE, bytes |-> <<>>]
       ELSE ReadAt(t.closed, t.data, Uint64(num.bytes), offset + 1 + 8)

\* SSTable.getIndexRange: the binary search over the anchors min..max
\* (Go indices: anchor i is sparseIndex[i + 1])
RECURSIVE indexRangeSearch(_, _, _, _)
indexRangeSearch(sp, key, min, max) ==
    IF max # min
    THEN LET idx == ((min + max) \div 2) + ((min + max) % 2)
             v == sp[idx + 1]
         IN IF StrLess(key, v.Key) THEN indexRangeSearch(sp, key, min, idx - 1)
            ELSE IF StrLess(v.Key, key) THEN indexRangeSearch(sp, key, idx, max)
            ELSE IF idx + 1 >= Len(sp)
                 THEN [start |-> 0, end |-> 0, panic |-> TRUE]
                 ELSE [start |-> v.Offset, end |-> sp[idx + 2].Offset, panic |-> FALSE]
    ELSE IF min < 0 \/ min + 1 >= Len(sp)
         THEN [start |-> 0, end |-> 0, panic |-> TRUE]
         ELSE [start |-> sp[min + 1].Offset, end |-> sp[min + 2].Offset,
               panic |-> FALSE]

\* SSTable.getIndexRange; panic: an index out of range
getIndexRange(t, key) ==
    LET sp == t.sparseIndex
        max == Len(sp) - 1
    IN IF max < 0 THEN [start |-> 0, end |-> 0, panic |-> TRUE]
       ELSE IF StrLeq(sp[max + 1].Key, key)
            THEN [start |-> sp[max + 1].Offset, end |-> IndexLen(t), panic |-> FALSE]
            ELSE indexRangeSearch(sp, key, 0, max)

\* SSTable.scanIndex, the loop over the buffer from position i
RECURSIVE scanLoop(_, _, _)
scanLoop(buffer, key, i) ==
    IF i >= Len(buffer)
    THEN [kind |-> 0, offset |-> 0, exists |-> FALSE, err |-> FALSE, panic |-> FALSE]
    ELSE IF i + 16 > Len(buffer)
    THEN [kind |-> 0, offset |-> 0, exists |-> FALSE, err |-> FALSE, panic |-> TRUE]
    ELSE LET kind == Uint64(SubSeq(buffer, i + 1, i + 8))
             keyLen == Uint64(SubSeq(buffer, i + 9, i + 16))
         IN IF i + 16 + keyLen > Len(buffer)
            THEN [kind |-> 0, offset |-> 0, exists |-> FALSE, err |-> FALSE,
                  panic |-> TRUE]
            ELSE IF SubSeq(buffer, i + 17, i + 16 + keyLen) = key
            THEN IF i + 16 + keyLen + 8 > Len(buffer)
                 THEN [kind |-> 0, offset |-> 0, exists |-> FALSE, err |-> FALSE,
                       panic |-> TRUE]
                 ELSE [kind |-> kind,
                       offset |-> Uint64(SubSeq(buffer, i + 16 + keyLen + 1,
                                                i + 16 + keyLen + 8)),
                       exists |-> TRUE, err |-> FALSE, panic |-> FALSE]
            ELSE scanLoop(buffer, key, i + 16 + keyLen + 8)

\* SSTable.scanIndex; panic: make([]byte, end-start) of a negative length
scanIndex(t, key, start, end) ==
    IF end - start < 0
    THEN [kind |-> 0, offset |-> 0, exists |-> FALSE, err |-> FALSE, panic |-> TRUE]
    ELSE LET rd == ReadAt(t.closed, t.index, end - start, start) IN
         IF ~rd.ok
         THEN [kind |-> 0, offset |-> 0, exists |-> FALSE, err |-> TRUE, panic |-> FALSE]
         ELSE scanLoop(rd.bytes, key, 0)

\* bloom.BloomFilter.Test: true of every key added; fp says whether the filter
\* also accepts this absent key (a filter with no bit set accepts nothing)
BloomTest(filter, key, fp) == key \in filter \/ (fp /\ filter # {})

\* SSTable.Read
SSTableRead(t, key, fp) ==
    LET miss == [kind |-> 0, data |-> <<>>, exists |-> FALSE, err |-> FALSE,
                 panic |-> FALSE]
    IN IF ~BloomTest(t.filter, key, fp) THEN miss
       ELSE LET rg == getIndexRange(t, key) IN
            IF rg.panic THEN [miss EXCEPT !.panic = TRUE]
            ELSE LET sc == scanIndex(t, key, rg.start, rg.end) IN
                 IF sc.panic THEN [miss EXCEPT !.panic = TRUE]
                 ELSE IF sc.err THEN [miss EXCEPT !.err = TRUE]
                 ELSE IF ~sc.exists THEN miss
                 ELSE LET d == getDataEntry(t, sc.offset) IN
                      IF ~d.ok THEN [miss EXCEPT !.err = TRUE]
                      ELSE [kind |-> sc.kind, data |-> d.bytes, exists |-> TRUE,
                            err |-> FALSE, panic |-> FALSE]

----------------------------------------------------------------------------
(* sstable.SSTableIterator *)

NilIterator == [nil |-> TRUE, kind |-> 0, key |-> <<>>, value |-> <<>>,
                nextIndexOffset |-> 0]

\* SSTableIterator.Next of a cursor whose nextIndexOffset is off; nil stands
\* for the (nil, error) returns, end of stream among them
SSTableIteratorNext(t, off) ==
    IF off = IndexLen(t) THEN NilIterator
    ELSE LET k == ReadAt(t.closed, t.index, 8, off)
             n == ReadAt(t.closed, t.index, 8, off + 8)
         IN IF ~k.ok \/ ~n.ok THEN NilIterator
            ELSE LET keyLen == Uint64(n.bytes)
                     kb == ReadAt(t.closed, t.index, keyLen, off + 8 + 8)
                     o == ReadAt(t.closed, t.index, 8, off + 8 + 8 + keyLen)
                 IN IF ~kb.ok \/ ~o.ok THEN NilIterator
                    ELSE LET d == getDataEntry(t, Uint64(o.bytes)) IN
                         IF ~d.ok THEN NilIterator
                         ELSE [nil |-> FALSE, kind |-> Uint64(k.bytes),
                               key |-> kb.bytes, value |-> d.bytes,
                               nextIndexOffset |-> off + 8 + keyLen + 8]

\* SSTable.Iterator: the cursor before byte 0, advanced once
SSTableIterator(t) == SSTableIteratorNext(t, 0)

\* sstableChunkIterator.next followed to the end from the cursor it:
\* the (kind, key, data) it yields
RECURSIVE sstableChunkEntries(_, _)
sstableChunkEntries(t, it) ==
    IF it.nil THEN <<>>
    ELSE <<[kind |-> it.kind, key |-> it.key, data |-> it.value]>>
         \o sstableChunkEntries(t, SSTableIteratorNext(t, it.nextIndexOffset))

----------------------------------------------------------------------------
(* The k-way merge. A chunkIterator is the sequence of the entries it still *)
(* yields, its current one first; the nil iterator is the empty sequence.   *)

\* getEntry: a pointer to the current entry, nil for the nil iterator
getEntry(it) == IF it = <<>> THEN <<>> ELSE <<Head(it)>>

\* getMin, the loop from Go index i with the locals exists, min, minKey
RECURSIVE getMinLoop(_, _, _, _, _)
getMinLoop(e, i, exists, min, minKey) ==
    IF i >= Len(e) THEN [min |-> min, exists |-> exists]
    ELSE IF e[i + 1] # <<>>
         THEN IF ~exists \/ StrLess(e[i + 1][1].key, minKey)
              THEN getMinLoop(e, i + 1, TRUE, i, e[i + 1][1].key)
              ELSE getMinLoop(e, i + 1, TRUE, min, minKey)
         ELSE getMinLoop(e, i + 1, exists, min, minKey)

\* getMin
getMin(e) == getMinLoop(e, 0, FALSE, -1, <<>>)

\* getEntries: everything the goroutine sends on the channel, in order
RECURSIVE getEntries(_)
getEntries(its) ==
    LET entries == [i \in 1..Len(its) |-> getEntry(its[i])]
        m == getMin(entries)
    IN IF ~m.exists THEN <<>>
       ELSE <<entries[m.min + 1][1]>>
            \o getEntries([its EXCEPT ![m.min + 1] = Tail(@)])

\* parallellMerge, the loop over the channel: the Write calls it makes
RECURSIVE mergeWrites(_, _)
mergeWrites(stream, prevKey) ==
    IF stream = <<>> THEN <<>>
    ELSE (IF Head(stream).key # prevKey
          THEN <<[key |-> Head(stream).key, kind |-> RecordKindWrite,
                  data |-> Head(stream).data]>>
          ELSE <<>>)
         \o mergeWrites(Tail(stream), Head(stream).key)

\* the Write calls applied to the builder, their errors dropped
RECURSIVE writeAll(_, _)
writeAll(tbl, writes) ==
    IF writes = <<>> THEN tbl
    ELSE writeAll(BuilderWrite(tbl, Head(writes).key, Head(writes).kind,
                               Head(writes).data).b,
                  Tail(writes))

\* parallellMerge: the builder afterwards
parallellMerge(its, tbl) == writeAll(tbl, mergeWrites(getEntries(its), <<>>))

----------------------------------------------------------------------------
(* lsmtree.chunk and the chunkData interface *)

\* fmt.Sprintf("layer-%v", i): the name of layer i, and with "-" behind it
\* what generateChunkName puts before the random part
LayerName(i) == <<108, 97, 121, 101, 114, 45>> \o FormatUint(i)

\* a memtable is named by one of randomString's results, an SSTable
\* "layer-<j>-<random>" by the target layer and the random part
MemNames == {<<r>> : r \in RandNames}
SstNames == {LayerName(j) \o <<45, r>> : j \in 0..(NumLayers - 1), r \in RandNames}

\* a chunk object: id is its identity as a Go pointer
MemChunk(id, name, list, dataSize) ==
    [id |-> id, name |-> name, chunkType |-> chunkTypeSkiplist,
     list |-> list, dataSize |-> dataSize, tbl |-> NoTable]

SstChunk(id, name, tbl) ==
    [id |-> id, name |-> name, chunkType |-> chunkTypeSSTable,
     list |-> NewSkipList, dataSize |-> 0, tbl |-> tbl]

\* chunkData.get; fp: the chunks whose bloom filter accepts the key though the
\* key was never added to it
ChunkGet(c, key, fp) ==
    IF c.chunkType = chunkTypeSkiplist THEN skiplistChunkGet(c.list, key)
    ELSE SSTableRead(c.tbl, key, c.id \in fp)

\* chunkData.iterator: whether the iterator made panics at its first value():
\* sstableChunk.iterator wraps the nil cursor of an empty or closed table
ChunkIteratorPanics(c) ==
    c.chunkType = chunkTypeSSTable /\ SSTableIterator(c.tbl).nil

\* chunkData.iterator followed to the end
ChunkEntries(c) ==
    IF c.chunkType = chunkTypeSkiplist THEN skiplistChunkEntries(SkipIterate(c.list))
    ELSE sstableChunkEntries(c.tbl, SSTableIterator(c.tbl))

----------------------------------------------------------------------------
(* lsmtree.LsmTree *)

LayerIdx == 0..(NumLayers - 1)

\* the layers NewLsmTree gives a fresh tree
FreshLayers ==
    [i \in LayerIdx |->
        [name |-> LayerName(i),
         maxChunks |-> IF i = NumLayers - 1 THEN LastLayerMaxChunks ELSE LayerMaxChunks,
         chunks |-> <<>>]]

\* LsmTree.Get, what it does with the result r of one chunk's get: return on
\* a panic, an error, a tombstone or a hit; else go on with the next chunk
GetChunk(r, next) ==
    IF r.panic
    THEN [done |-> TRUE, data |-> <<>>, exists |-> FALSE, err |-> FALSE, panic |-> TRUE]
    ELSE IF r.err
    THEN [done |-> TRUE, data |-> <<>>, exists |-> FALSE, err |-> TRUE, panic |-> FALSE]
    ELSE IF r.kind = RecordKindDelete
    THEN [done |-> TRUE, data |-> <<>>, exists |-> FALSE, err |-> FALSE, panic |-> FALSE]
    ELSE IF r.exists
    THEN [done |-> TRUE, data |-> r.data, exists |-> TRUE, err |-> FALSE, panic |-> FALSE]
    ELSE next

\* LsmTree.Get, the loop over the chunks of one layer from position j on
RECURSIVE GetChunks(_, _, _, _)
GetChunks(chunks, j, key, fp) ==
    IF j > Len(chunks)
    THEN [done |-> FALSE, data |-> <<>>, exists |-> FALSE, err |-> FALSE,
          panic |-> FALSE]
    ELSE GetChunk(ChunkGet(chunks[j], key, fp), GetChunks(chunks, j + 1, key, fp))

\* LsmTree.Get: the result r of a loop over chunks if that loop returned, else
\* what follows it
GetReturn(r, next) ==
    IF r.done
    THEN [data |-> r.data, exists |-> r.exists, err |-> r.err, panic |-> r.panic]
    ELSE next

\* LsmTree.Get, the loop over the layers from layer i on
RECURSIVE GetLayers(_, _, _, _)
GetLayers(t, i, key, fp) ==
    IF i > NumLayers - 1
    THEN [data |-> <<>>, exists |-> FALSE, err |-> FALSE, panic |-> FALSE]
    ELSE GetReturn(GetChunks(t.layers[i].chunks, 1, key, fp),
                   GetLayers(t, i + 1, key, fp))

\* LsmTree.Get: (data, exists, err), or a panic
TreeGet(t, key, fp) ==
    GetReturn(GetChunks(<<t.rootChunk>>, 1, key, fp), GetLayers(t, 0, key, fp))

\* every chunk object the tree holds
TreeChunks(t) ==
    {t.rootChunk} \cup
    UNION {{t.layers[i].chunks[j] : j \in 1..Len(t.layers[i].chunks)} : i \in LayerIdx}

ChunkIds(t) == {c.id : c \in TreeChunks(t)}

\* json.Encoder.Encode of an lsmChunkJson: the name as the text between the
\* quotes of its JSON string, the kind in decimal digits
encodeChunk(c) == [Name |-> appendString(c.name), ChunkType |-> FormatUint(c.chunkType)]

\* a save that lists the chunks of every layer last to first
ManifestOf_Reversed(t) ==
    [Root |-> encodeChunk(t.rootChunk),
     MaxRootChunkSize |-> FormatUint(t.maxRootChunkSize),
     Layers |-> [i \in LayerIdx |->
                   [Name |-> appendString(t.layers[i].name),
                    MaxChunks |-> FormatUint(t.layers[i].maxChunks),
                    Chunks |-> [j \in 1..Len(t.layers[i].chunks) |->
                                  encodeChunk(t.layers[i].chunks[
                                      Len(t.layers[i].chunks) + 1 - j])]]]]

\* LsmTree.save: the content of lsm.json, a document with the fields of
\* lsmTreeJson whose strings and numbers are the bytes the encoder writes
ManifestOf(t) ==
    [Root |-> encodeChunk(t.rootChunk),
     MaxRootChunkSize |-> FormatUint(t.maxRootChunkSize),
     Layers |-> [i \in LayerIdx |->
                   [Name |-> appendString(t.layers[i].name),
                    MaxChunks |-> FormatUint(t.layers[i].maxChunks),
                    Chunks |-> [j \in 1..Len(t.layers[i].chunks) |->
                                  encodeChunk(t.layers[i].chunks[j])]]]]

\* json.Decoder.Decode of an lsmChunkJson of the document
decodeChunk(c) ==
    [Name |-> unquote(c.Name \o <<34>>, 1).bytes, ChunkType |-> ParseUint(c.ChunkType)]

\* load, decoder.Decode(&m): the lsmTreeJson of the document in lsm.json
decodeManifest(file) ==
    [Root |-> decodeChunk(file.Root),
     MaxRootChunkSize |-> ParseUint(file.MaxRootChunkSize),
     Layers |-> [i \in LayerIdx |->
                   [Name |-> unquote(file.Layers[i].Name \o <<34>>, 1).bytes,
                    MaxChunks |-> ParseUint(file.Layers[i].MaxChunks),
                    Chunks |-> [j \in 1..Len(file.Layers[i].Chunks) |->
                                  decodeChunk(file.Layers[i].Chunks[j])]]]]

\* lsm.json is absent
NoManifest == <<>>

----------------------------------------------------------------------------
(* NewLsmTree and load *)

\* load, the loop over the chunks of one manifest layer: createChunkData of
\* each by its kind; ok is FALSE when an SSTable named there cannot be opened
RECURSIVE loadChunks(_, _, _, _, _)
loadChunks(files, sst, descs, id, acc) ==
    IF descs = <<>> THEN [ok |-> TRUE, files |-> files, chunks |-> acc, nextId |-> id]
    ELSE LET c == Head(descs) IN
         IF c.ChunkType = chunkTypeSkiplist
         THEN LET nc == newSkipListChunk(files, c.Name) IN
              loadChunks(nc.files, sst, Tail(descs), id + 1,
                         Append(acc, MemChunk(id, c.Name, nc.list, nc.dataSize)))
         ELSE IF ~sst[c.Name].exists
              THEN [ok |-> FALSE, files |-> files, chunks |-> acc, nextId |-> id]
              ELSE loadChunks(files, sst, Tail(descs), id + 1,
                              Append(acc, SstChunk(id, c.Name, LoadSSTable(sst[c.Name]))))

\* load, the loop over the manifest layers from layer i on
RECURSIVE loadLayers(_, _, _, _, _, _)
loadLayers(files, sst, m, i, id, acc) ==
    IF i > NumLayers - 1 THEN [ok |-> TRUE, files |-> files, layers |-> acc, nextId |-> id]
    ELSE LET lc == loadChunks(files, sst, m.Layers[i].Chunks, id, <<>>) IN
         IF ~lc.ok THEN [ok |-> FALSE, files |-> lc.files, layers |-> acc, nextId |-> id]
         ELSE loadLayers(lc.files, sst, m, i + 1, lc.nextId,
                         [acc EXCEPT ![i] = [name |-> m.Layers[i].Name,
                                             maxChunks |-> m.Layers[i].MaxChunks,
                                             chunks |-> lc.chunks]])

\* load, its result: rc the root opened, ls the layers loaded
loadResult(m, id, rc, ls) ==
    [ok |-> ls.ok, files |-> ls.files, nextId |-> ls.nextId,
     tree |-> [rootChunk |-> [MemChunk(id, m.Root.Name, rc.list, rc.dataSize)
                                EXCEPT !.chunkType = m.Root.ChunkType],
               layers |-> ls.layers,
               maxRootChunkSize |-> m.MaxRootChunkSize]]

\* load, the layers once the root is opened as rc
loadRest(sst, m, id, rc) ==
    loadResult(m, id, rc, loadLayers(rc.files, sst, m, 0, id + 1, FreshLayers))

\* load of a manifest that exists: the root is opened as a memtable whatever
\* its recorded kind, then the layers; id is the identity of the first chunk
\* object made
load(files, sst, m, id) == loadRest(sst, m, id, newSkipListChunk(files, m.Root.Name))

\* NewLsmTree, the fresh tree around the root rc that was made
freshTreeOf(r, id, rc) ==
    [files |-> rc.files, nextId |-> id + 1,
     tree |-> [rootChunk |-> MemChunk(id, <<r>>, rc.list, rc.dataSize),
               layers |-> FreshLayers,
               maxRootChunkSize |-> MaxRootChunkSize]]

\* NewLsmTree, the part after load found nothing to return: a fresh tree
\* whose root is named r; nothing is saved
freshTree(files, r, id) == freshTreeOf(r, id, newSkipListChunk(files, <<r>>))

\* NewLsmTree, what it does with the result ld of load
afterLoad(ld, r, id) ==
    IF ld.ok THEN [files |-> ld.files, nextId |-> ld.nextId, tree |-> ld.tree]
    ELSE freshTree(ld.files, r, id)

\* NewLsmTree: the loaded tree when load returns one; a fresh tree when the
\* manifest is absent and also when load fails on a missing chunk file
\* (os.IsNotExist is true of that error too)
NewLsmTree(files, sst, man, r, id) ==
    IF man = NoManifest THEN freshTree(files, r, id)
    ELSE afterLoad(load(files, sst, decodeManifest(man[1]), id), r, id)

----------
(* The locks: layer.lock is a sync.RWMutex. RLock returns at once unless a  *)
(* writer holds the lock or waits for it; Lock waits until no reader holds  *)
(* it, and from the call on new readers wait; Unlock hands the lock to the  *)
(* readers that wait.                                                       *)

\* goroutines that call Get
Readers == 1..MaxReaders

\* a sync.RWMutex nobody holds
FreeLock == [w |-> "none", holders |-> {}, waiters |-> {}]

GetIdle == [pc |-> "idle", i |-> 0]

MlIdle == [pc |-> "idle", i |-> 0]

\* every lock free, no Get and no mergeLayer under way
IdleLocks ==
    /\ locks = [i \in LayerIdx |-> FreeLock]
    /\ getPc = [g \in Readers |-> GetIdle]
    /\ mlPc = MlIdle

\* no WAL under test
IdleWal ==
    /\ wRecs = <<>>
    /\ wMode = TRUE
    /\ wFile = <<>>
    /\ wPc = [pc |-> "idle", n |-> 0]
    /\ wOut = <<>>

\* no SSTable under test
IdleSst ==
    /\ sIn = <<>>
    /\ sBlock = defaultSparseIndexBlockSize
    /\ sTbl = <<>>
    /\ sOut = <<>>

\* no skiplist under test
IdleSkip == kList = <<>> /\ kHist = <<>> /\ kOut = <<>>

\* no memtable under test
IdleChunk == cChunk = <<>> /\ cFiles = <<>> /\ cOut = <<>>

\* no builder under test
IdleBuilder == bTbl = <<>> /\ bOut = <<>>

\* no linked list under test
IdleList == lList = <<>> /\ lOut = <<>>

\* no rotation under test
IdleRotate == rMem = <<>> /\ rSet = <<>> /\ rGet = <<>>

IdleUnits == IdleSkip /\ IdleChunk /\ IdleBuilder /\ IdleList /\ IdleRotate

----------------------------------------------------------------------------
(* The state machine of one rootDir and the process that has it open *)

MpSleep == [pc |-> "sleep", i |-> 0, chunks |-> <<>>, name |-> <<>>]

\* the names lsm.json lists
ManifestNames(man) ==
    IF man = NoManifest THEN {}
    ELSE LET m == decodeManifest(man[1])
         IN {m.Root.Name} \cup
            UNION {{m.Layers[i].Chunks[j].Name : j \in 1..Len(m.Layers[i].Chunks)}
                   : i \in LayerIdx}

\* randomString: the results that differ in what follows. A name is told from
\* another only by the files, the chunks and the manifest entries that carry
\* it, so the names nothing carries are alike and the least of them stands for
\* all; pre is what comes before the random part.
RandDraws(pre) ==
    LET used == {r \in RandNames :
                   \/ /\ pre = <<>>
                      /\ walFiles[<<r>>].exists
                   \/ /\ pre # <<>>
                      /\ sstFiles[pre \o <<r>>].exists
                   \/ \E c \in TreeChunks(tree) : c.name = pre \o <<r>>
                   \/ pre \o <<r>> \in ManifestNames(manifest)}
        free == RandNames \ used
    IN used \cup {r \in free : \A q \in free : r <= q}

NoRecord == <<>>

\* NewLsmTree on an empty rootDir
InitTree ==
    \E nt \in {NewLsmTree([n \in MemNames |-> NoWalFile],
                           [n \in SstNames |-> NoSstFile], NoManifest,
                          randomFileChars[1], 1)} :
           /\ tree = nt.tree
           /\ walFiles = nt.files
           /\ sstFiles = [n \in SstNames |-> NoSstFile]
           /\ manifest = NoManifest
           /\ alive = TRUE
           /\ mp = MpSleep
           /\ nextId = nt.nextId
           /\ reopens = 0
           /\ sets = 0
           /\ tombs = 0
           /\ ret = [op |-> "Open", err |-> FALSE]
           /\ written = [k \in Keys |-> NoRecord]

\* no merge under test
IdleMerge == mIn = <<>> /\ mOut = <<>>

Init ==
    /\ InitTree
    /\ IdleUnits
    /\ IdleMerge
    /\ IdleLocks
    /\ IdleWal
    /\ IdleSst

\* LsmTree.Set(key, data); r is what randomString returns when the memtable is
\* rotated, walOk and saveOk whether the WAL append and the manifest save work
Set(key, data, r, walOk, saveOk) ==
    /\ alive
    /\ sets < MaxSets
    /\ sets' = sets + 1
    /\ LET s == skiplistChunkSet(tree.rootChunk, walFiles, key, RecordKindWrite,
                                 data, walOk)
       IN IF UintGreater(s.chunk.dataSize, tree.maxRootChunkSize)
          THEN /\ nextId <= MaxChunks
               /\ LET nc == newSkipListChunk(s.files, <<r>>)
                      t1 == [tree EXCEPT
                               !.layers[0].chunks = <<s.chunk>> \o @,
                               !.rootChunk = MemChunk(nextId, <<r>>, nc.list,
                                                      nc.dataSize)]
                  IN /\ tree' = t1
                     /\ walFiles' = nc.files
                     /\ manifest' = IF saveOk THEN <<ManifestOf(t1)>> ELSE manifest
                     /\ nextId' = nextId + 1
                     /\ ret' = [op |-> "Rotate", err |-> ~saveOk]
          ELSE /\ tree' = [tree EXCEPT !.rootChunk = s.chunk]
               /\ walFiles' = s.files
               /\ ret' = [op |-> "Set", err |-> FALSE]
               /\ UNCHANGED <<manifest, nextId>>
    /\ written' = [written EXCEPT ![key] = <<[kind |-> RecordKindWrite, data |-> data]>>]
    /\ UNCHANGED <<sstFiles, alive, mp, reopens, tombs, otherVars>>

\* the chunks whose bloom filter can accept a key that was never added to it
SstIds(t) == {c.id : c \in {d \in TreeChunks(t) : d.chunkType = chunkTypeSSTable}}

\* LsmTree.Get(key): a panic ends the process
Get(key, fp) ==
    /\ alive
    /\ alive' = ~TreeGet(tree, key, fp).panic
    /\ UNCHANGED <<tree, walFiles, sstFiles, manifest, mp, nextId, reopens, sets,
                   tombs, ret, written, otherVars>>

\* mergeLayer: the layer merged into
NextLayerIdx(i) == IF i < NumLayers - 1 THEN i + 1 ELSE i

\* mergeProcess: whether layer l is handed to mergeLayer
OverCapacity(l) == Len(l.chunks) > l.maxChunks

\* mergeProcess: the layers from layer i on that the loop hands to mergeLayer
MergeDue(t, i) == {k \in LayerIdx : k >= i /\ OverCapacity(t.layers[k])}

\* mergeProcess: the first layer from layer i on that the loop merges
FirstDue(t, i) == CHOOSE k \in MergeDue(t, i) : \A m \in MergeDue(t, i) : k <= m

\* mergeProcess after the merge of layer i: the loop is at layer i + 1 if a
\* layer from there on is over capacity, else it runs out and sleeps. (Only
\* mergeLayer changes the length of a layer above layer 0, so the checks the
\* loop makes on its way to the next merge see what this sees.)
MpAdvance(t, i) ==
    IF MergeDue(t, i + 1) = {} THEN MpSleep
    ELSE [pc |-> "check", i |-> i + 1, chunks |-> <<>>, name |-> <<>>]

\* hasChunkWithName
hasChunkWithName(t, layer, name) ==
    \E j \in 1..Len(t.layers[layer].chunks) : t.layers[layer].chunks[j].name = name

\* mergeLayer(i) up to Build: the snapshot of the chunk list, the name of
\* the new chunk (r is what randomString returns on the try that is kept), the
\* iterators, the merge into the builder and the artifacts written. A nil
\* cursor inside an iterator panics at its first value(). pc tells who made
\* the call: mergeProcess ("merge") or another caller ("direct").
MergeLayerBegin(i, r, pc) ==
    /\ alive
    /\ mp.pc \in {"sleep", "check"}
    /\ nextId <= MaxChunks
    /\ LET chunks == tree.layers[i].chunks
           chunkName == LayerName(NextLayerIdx(i)) \o <<45, r>>
           its == [k \in 1..Len(chunks) |-> ChunkEntries(chunks[k])]
       IN /\ r \in RandDraws(LayerName(NextLayerIdx(i)) \o <<45>>)
          /\ ~hasChunkWithName(tree, NextLayerIdx(i), chunkName)
          /\ IF \E k \in 1..Len(chunks) : ChunkIteratorPanics(chunks[k])
             THEN /\ alive' = FALSE
                  /\ sstFiles' = [sstFiles EXCEPT ![chunkName] = NoSstFile]
                  /\ mp' = mp
             ELSE /\ alive' = alive
                  /\ sstFiles' = [sstFiles EXCEPT ![chunkName] =
                        BuildFiles(parallellMerge(its,
                                       NewSSTable(defaultSparseIndexBlockSize)))]
                  /\ mp' = [pc |-> pc, i |-> i,
                            chunks |-> [k \in 1..Len(chunks) |-> chunks[k].id],
                            name |-> chunkName]
    /\ UNCHANGED <<tree, walFiles, manifest, nextId, reopens, sets, tombs, ret,
                   written, otherVars>>

\* mergeProcess wakes, or goes on after a merge, and reaches the next layer
\* over capacity: mergeLayer of it
MergeBegin(r) ==
    /\ MergeDue(tree, mp.i) # {}
    /\ MergeLayerBegin(FirstDue(tree, mp.i), r, "merge")

\* the ids of the chunks of the snapshot mergeLayer took
MergedIds == {mp.chunks[k] : k \in 1..Len(mp.chunks)}

\* chunkData.delete of the chunks ids, the in-memory part: the mappings of an
\* SSTable are closed
closeChunks(chunks, ids) ==
    [j \in 1..Len(chunks) |->
        IF chunks[j].id \in ids /\ chunks[j].chunkType = chunkTypeSSTable
        THEN [chunks[j] EXCEPT !.tbl = CloseTable(@)]
        ELSE chunks[j]]

\* mergeLayer(mp.i) from the locks on. "l.chunks = nil" clears the copy of the
\* layer that l is, not tree.layers[mp.i]; the error of save is dropped.
MergeCommit(saveOk) ==
    /\ alive
    /\ mp.pc \in {"merge", "direct"}
    /\ LET j == NextLayerIdx(mp.i)
           newChunk == SstChunk(nextId, mp.name, LoadSSTable(sstFiles[mp.name]))
           t1 == [tree EXCEPT !.layers[j].chunks = <<newChunk>> \o @]
           old == {c \in TreeChunks(tree) : c.id \in MergedIds}
           oldWal == {c.name : c \in {d \in old : d.chunkType = chunkTypeSkiplist}}
           oldSst == {c.name : c \in {d \in old : d.chunkType = chunkTypeSSTable}}
       IN /\ manifest' = IF saveOk THEN <<ManifestOf(t1)>> ELSE manifest
          /\ tree' = [t1 EXCEPT !.layers =
                        [i \in LayerIdx |->
                           [t1.layers[i] EXCEPT !.chunks = closeChunks(@, MergedIds)]]]
          /\ walFiles' = [n \in MemNames |->
                            IF n \in oldWal THEN NoWalFile ELSE walFiles[n]]
          /\ sstFiles' = [n \in SstNames |->
                            IF n \in oldSst THEN NoSstFile ELSE sstFiles[n]]
          /\ mp' = IF mp.pc = "merge" THEN MpAdvance(t1, mp.i) ELSE MpSleep
    /\ nextId' = nextId + 1
    /\ UNCHANGED <<alive, reopens, sets, tombs, ret, written, otherVars>>

\* the process stops (or has died) and NewLsmTree opens rootDir again; r is
\* what randomString returns if a fresh tree is made
Reopen(r) ==
    /\ reopens < MaxReopens
    /\ \E nt \in {NewLsmTree(walFiles, sstFiles, manifest, r, nextId)} :
           /\ tree' = nt.tree
           /\ walFiles' = nt.files
           /\ nextId' = nt.nextId
    /\ alive' = TRUE
    /\ mp' = MpSleep
    /\ reopens' = reopens + 1
    /\ ret' = [op |-> "Open", err |-> FALSE]
    /\ UNCHANGED <<sstFiles, manifest, sets, tombs, written, otherVars>>

\* every file operation works
Next ==
    \/ \E key \in Keys, data \in Values, r \in RandDraws(<<>>) :
          Set(key, data, r, TRUE, TRUE)
    \/ \E key \in Keys : \E fp \in SUBSET SstIds(tree) : Get(key, fp)
    \/ \E r \in RandNames : MergeBegin(r)
    \/ MergeCommit(TRUE)
    \/ \E r \in RandDraws(<<>>) : Reopen(r)

Spec == Init /\ [][Next]_vars

----------------------------------------------------------------------------
(* The tree with tombstones: LsmTree has no operation that writes one, the  *)
(* chunk interface has. SetTombstone is that call on the root chunk.        *)

\* tree.rootChunk.data.set(key, RecordKindDelete, nil)
SetTombstone(key, walOk) ==
    /\ alive
    /\ tombs < MaxTombstones
    /\ tombs' = tombs + 1
    /\ \E s \in {skiplistChunkSet(tree.rootChunk, walFiles, key, RecordKindDelete,
                                  <<>>, walOk)} :
           /\ tree' = [tree EXCEPT !.rootChunk = s.chunk]
           /\ walFiles' = s.files
    /\ written' = [written EXCEPT ![key] = <<[kind |-> RecordKindDelete, data |-> <<>>]>>]
    /\ UNCHANGED <<sstFiles, manifest, alive, mp, nextId, reopens, sets, ret, otherVars>>

NextTomb ==
    \/ Next
    \/ \E key \in Keys : SetTombstone(key, TRUE)

SpecTomb == Init /\ [][NextTomb]_vars

----------------------------------------------------------------------------
(* The tree on a disk that can fail: the append to the WAL (os.File.Write)  *)
(* and the write of lsm.json (os.WriteFile) either work or return an error  *)

NextIO ==
    \/ \E key \in Keys, data \in Values, r \in RandDraws(<<>>) :
          \E walOk \in BOOLEAN, saveOk \in BOOLEAN : Set(key, data, r, walOk, saveOk)
    \/ \E key \in Keys : \E fp \in SUBSET SstIds(tree) : Get(key, fp)
    \/ \E r \in RandNames : MergeBegin(r)
    \/ \E saveOk \in BOOLEAN : MergeCommit(saveOk)
    \/ \E r \in RandDraws(<<>>) : Reopen(r)

SpecIO == Init /\ [][NextIO]_vars

----------------------------------------------------------------------------
(* mergeLayer called for any layer, as a test of mergeLayer calls it, in    *)
(* the two seconds that mergeProcess sleeps before its first round;         *)
(* mergeProcess itself hands over only a layer with more chunks than        *)
(* maxChunks.                                                               *)

NextDirect ==
    \/ \E key \in Keys, data \in Values, r \in RandDraws(<<>>) :
          Set(key, data, r, TRUE, TRUE)
    \/ \E key \in Keys : \E fp \in SUBSET SstIds(tree) : Get(key, fp)
    \/ \E i \in LayerIdx, r \in RandNames :
          mp.pc = "sleep" /\ MergeLayerBegin(i, r, "direct")
    \/ MergeCommit(TRUE)

SpecDirect == Init /\ [][NextDirect]_vars

----------------------------------------------------------------------------
(* The manifest on its own: tree.save() of the tree the process has, then   *)
(* load(rootDir) by a caller that keeps the tree load returns next to the    *)
(* running one (ret.tree; nil is the empty sequence).                        *)

\* save(), then load(rootDir); ld is what load makes of the document saved
SaveLoad(ld) ==
    /\ alive
    /\ ret.op # "Load"
    /\ manifest' = <<ManifestOf(tree)>>
    /\ walFiles' = ld.files
    /\ ret' = [op |-> "Load", err |-> ~ld.ok,
               tree |-> IF ld.ok THEN <<ld.tree>> ELSE <<>>]
    /\ UNCHANGED <<tree, sstFiles, alive, mp, nextId, reopens, sets, tombs, written,
                   otherVars>>

NextManifest ==
    \/ Next
    \/ \E ld \in {load(walFiles, sstFiles, decodeManifest(ManifestOf(tree)), nextId)} :
          SaveLoad(ld)

SpecManifest == Init /\ [][NextManifest]_vars

----------------------------------------------------------------------------
(* The locking of Get and mergeLayer. What a Get finds in a chunk and which *)
(* layer is over capacity are left open: a Get may return after any layer,  *)
(* mergeLayer may be called for any layer.                                  *)

\* sync.RWMutex.RLock called by g
RLock(l, g) ==
    IF l.w = "none" THEN [l EXCEPT !.holders = @ \cup {g}]
    ELSE [l EXCEPT !.waiters = @ \cup {g}]

\* sync.RWMutex.RUnlock called by g
RUnlock(l, g) == [l EXCEPT !.holders = @ \ {g}]

\* sync.RWMutex.Lock, the call: the writer has the lock if no reader holds it
Lock(l) == [l EXCEPT !.w = IF l.holders = {} THEN "held" ELSE "waiting"]

\* sync.RWMutex.Unlock: the readers that wait get the lock
Unlock(l) == [w |-> "none", holders |-> l.waiters, waiters |-> {}]

\* Get taking the locks from the last layer to the first
GetOrder_Descending == [n \in 1..NumLayers |-> NumLayers - n]

\* Get: the layers in the order of its loop, "for i := 0; i < len(tree.layers); i++"
GetOrder == [n \in 1..NumLayers |-> n - 1]

\* Get is called; the memtable is read without a lock and does not answer
GetCall(g) ==
    /\ getPc[g].pc = "idle"
    /\ getPc' = [getPc EXCEPT ![g] = [pc |-> "lock", i |-> 1]]
    /\ UNCHANGED <<locks, mlPc, exceptLock>>

\* Get: layer.lock.RLock() of the layer the loop is at
GetRLock(g) ==
    /\ getPc[g].pc = "lock"
    /\ \E l \in {GetOrder[getPc[g].i]} :
           /\ locks' = [locks EXCEPT ![l] = RLock(@, g)]
           /\ getPc' = [getPc EXCEPT ![g].pc =
                           IF locks[l].w = "none" THEN "scan" ELSE "blocked"]
    /\ UNCHANGED <<mlPc, exceptLock>>

\* Get: the loop over the chunks of the layer ends without an answer and the
\* loop over the layers goes on
GetMiss(g) ==
    /\ getPc[g].pc = "scan"
    /\ getPc[g].i < NumLayers
    /\ getPc' = [getPc EXCEPT ![g] = [pc |-> "lock", i |-> getPc[g].i + 1]]
    /\ UNCHANGED <<locks, mlPc, exceptLock>>

\* Get returns (an answer in this layer, or no layer left): the deferred
\* RUnlock calls run, last lock first
GetReturns(g) ==
    /\ getPc[g].pc = "scan"
    /\ getPc' = [getPc EXCEPT ![g].pc = "unlock"]
    /\ UNCHANGED <<locks, mlPc, exceptLock>>

\* Get: a deferred layer.lock.RUnlock()
GetRUnlock(g) ==
    /\ getPc[g].pc = "unlock"
    /\ locks' = [locks EXCEPT ![GetOrder[getPc[g].i]] = RUnlock(@, g)]
    /\ getPc' = [getPc EXCEPT ![g] =
                    IF getPc[g].i = 1 THEN GetIdle
                    ELSE [pc |-> "unlock", i |-> getPc[g].i - 1]]
    /\ UNCHANGED <<mlPc, exceptLock>>

\* mergeLayer(i) has built the new table and comes to l.lock.Lock()
MlCall(i) ==
    /\ mlPc.pc = "idle"
    /\ mlPc' = [pc |-> "lock", i |-> i, k |-> i]
    /\ UNCHANGED <<locks, getPc, exceptLock>>

\* mergeLayer with lock k in its hands: the lock of the next layer is taken
\* if that is another layer; else the chunk lists are changed, the manifest
\* saved, the old chunks deleted, and the deferred Unlock calls run
MlHolds(m) ==
    IF m.k = m.i /\ NextLayerIdx(m.i) # m.i
    THEN [m EXCEPT !.pc = "lock", !.k = NextLayerIdx(m.i)]
    ELSE [m EXCEPT !.pc = "unlock"]

\* mergeLayer: l.lock.Lock() or nextLayer.lock.Lock(), the call
MlLock ==
    /\ mlPc.pc = "lock"
    /\ locks' = [locks EXCEPT ![mlPc.k] = Lock(@)]
    /\ mlPc' = IF locks[mlPc.k].holders = {} THEN MlHolds(mlPc)
               ELSE [mlPc EXCEPT !.pc = "wait"]
    /\ UNCHANGED <<getPc, exceptLock>>

\* mergeLayer: the Lock call returns once the last reader has unlocked
MlGranted ==
    /\ mlPc.pc = "wait"
    /\ locks[mlPc.k].holders = {}
    /\ locks' = [locks EXCEPT ![mlPc.k].w = "held"]
    /\ mlPc' = MlHolds(mlPc)
    /\ UNCHANGED <<getPc, exceptLock>>

\* mergeLayer: a deferred Unlock, the lock of the next layer first
MlUnlock ==
    /\ mlPc.pc = "unlock"
    /\ locks' = [locks EXCEPT ![mlPc.k] = Unlock(@)]
    /\ getPc' = [g \in Readers |->
                    IF g \in locks[mlPc.k].waiters
                    THEN [getPc[g] EXCEPT !.pc = "scan"] ELSE getPc[g]]
    /\ mlPc' = IF mlPc.k # mlPc.i THEN [mlPc EXCEPT !.k = mlPc.i] ELSE MlIdle
    /\ UNCHANGED <<exceptLock>>

\* the steps of mergeLayer once it is called
MlSteps == MlLock \/ MlGranted \/ MlUnlock

NextLock ==
    \/ \E g \in Readers : GetCall(g)
    \/ \E g \in Readers : GetRLock(g)
    \/ \E g \in Readers : GetMiss(g)
    \/ \E g \in Readers : GetReturns(g)
    \/ \E g \in Readers : GetRUnlock(g)
    \/ \E i \in LayerIdx : MlCall(i)
    \/ MlLock
    \/ MlGranted
    \/ MlUnlock

InitLock ==
    /\ InitTree
    /\ IdleUnits
    /\ IdleMerge
    /\ IdleLocks
    /\ IdleWal
    /\ IdleSst

\* the Go scheduler runs every goroutine that can run; nobody has to call Get
\* or mergeLayer
SpecLock ==
    /\ InitLock
    /\ [][NextLock]_vars
    /\ \A g \in Readers :
           WF_vars(GetRLock(g) \/ GetMiss(g) \/ GetReturns(g) \/ GetRUnlock(g))
    /\ WF_vars(MlSteps)

----------------------------------------------------------------------------
(* wal.WAL at the level of the bytes of the file: a record is the JSON of   *)
(* its WALEntry followed by the separator '\n'. encoding/json and           *)
(* encoding/base64 are modelled on the documents Write produces and on      *)
(* their prefixes. Data is a slice that is not nil.                         *)

\* const entrySeparator = '\n'
entrySeparator == 10

\* the bytes {"Kind":
KindField == <<123, 34, 75, 105, 110, 100, 34, 58>>

\* the bytes ,"Key":"  and  ","Data":"  and  "}
TextFields ==
    [key |-> <<44, 34, 75, 101, 121, 34, 58, 34>>,
     data |-> <<34, 44, 34, 68, 97, 116, 97, 34, 58, 34>>,
     end |-> <<34, 125>>]

\* json.Marshal of a WALEntry
jsonMarshal(e) ==
    KindField \o FormatUint(e.Kind) \o TextFields.key \o appendString(e.Key)
        \o TextFields.data \o EncodeToString(e.Data) \o TextFields.end

\* the bytes lit stand in s at position i
HasPrefixAt(s, i, lit) ==
    i + Len(lit) - 1 <= Len(s) /\ SubSeq(s, i, i + Len(lit) - 1) = lit

\* the position of the last of the digits that start at position i of s
RECURSIVE DigitsEnd(_, _)
DigitsEnd(s, i) ==
    IF i > Len(s) \/ s[i] < 48 \/ s[i] > 57 THEN i - 1 ELSE DigitsEnd(s, i + 1)

\* json.Unmarshal into a WALEntry, from the Data field on: key is the Key
\* field as unquote gave it
unmarshalData(s, kind, key) ==
    LET fail == [ok |-> FALSE, entry |-> <<>>]
    IN IF ~key.ok \/ ~HasPrefixAt(s, key.next, TextFields.data) THEN fail
       ELSE LET text == unquote(s, key.next + Len(TextFields.data))
                data == DecodeString(text.bytes)
            IN IF ~text.ok \/ ~data.ok \/ ~HasPrefixAt(s, text.next, TextFields.end)
                  \/ \E k \in (text.next + 2)..Len(s) : s[k] \notin {9, 10, 13, 32}
               THEN fail
               ELSE [ok |-> TRUE,
                     entry |-> [Kind |-> kind, Key |-> key.bytes, Data |-> data.bytes]]

\* json.Unmarshal into a WALEntry; not ok: the error of a document that is
\* cut short or is no JSON
jsonUnmarshal(s) ==
    LET fail == [ok |-> FALSE, entry |-> <<>>]
    IN IF ~HasPrefixAt(s, 1, KindField) THEN fail
       ELSE LET e == DigitsEnd(s, Len(KindField) + 1)
            IN IF e <= Len(KindField)
                  \/ (e > Len(KindField) + 1 /\ s[Len(KindField) + 1] = 48)
                  \/ ~HasPrefixAt(s, e + 1, TextFields.key)
               THEN fail
               ELSE unmarshalData(s, ParseUint(SubSeq(s, Len(KindField) + 1, e)),
                                  unquote(s, e + 1 + Len(TextFields.key)))

\* WAL.Write on the file with bytes file: the record and the separator in one
\* write; canWrite is whether the handle of NewWAL, opened with
\* os.O_APPEND|os.O_CREATE and no access mode (read-only), takes writes
WALFileWrite(file, e, canWrite) ==
    IF canWrite THEN [file |-> file \o jsonMarshal(e) \o <<entrySeparator>>, err |-> FALSE]
    ELSE [file |-> file, err |-> TRUE]

\* bufio.Reader.ReadBytes(entrySeparator) from position i: the position of
\* the first separator, or of the last byte of the file
RECURSIVE ReadBytesEnd(_, _)
ReadBytesEnd(f, i) ==
    IF i >= Len(f) \/ f[i] = entrySeparator THEN i ELSE ReadBytesEnd(f, i + 1)

\* LoadWAL, one round of the loop on what ReadBytes gave, which json.Unmarshal
\* made u of; rest is what the rounds after it give
loadRound(u, rest) ==
    IF ~u.ok \/ rest.err THEN [entries |-> <<>>, err |-> TRUE]
    ELSE [entries |-> <<u.entry>> \o rest.entries, err |-> FALSE]

\* LoadWAL, the loop from position i of the file
RECURSIVE loadLoop(_, _)
loadLoop(f, i) ==
    IF i > Len(f) THEN [entries |-> <<>>, err |-> FALSE]
    ELSE loadRound(jsonUnmarshal(SubSeq(f, i, ReadBytesEnd(f, i))),
                   loadLoop(f, ReadBytesEnd(f, i) + 1))

\* LoadWAL of a file that exists: (entries, err), entries nil with an error
LoadWALFile(f) == loadLoop(f, 1)

----------------------------------------------------------------------------
(* The WAL on its own: NewWAL on a new file, Write of every record, Close,  *)
(* LoadWAL; or a crash in the middle of a Write, and LoadWAL after it.      *)

\* keys: a, a quote, e with an acute accent (two bytes), a byte that is no UTF-8
WalKeys == {<<97>>, <<34>>, <<195, 169>>, <<255>>}

WalData == {<<>>, <<120>>, <<0, 255>>}

WalRecords == [Kind : {RecordKindWrite, RecordKindDelete}, Key : WalKeys, Data : WalData]

InitWal ==
    /\ InitTree
    /\ IdleUnits
    /\ IdleMerge
    /\ IdleLocks
    /\ IdleSst
    /\ wRecs \in UNION {[1..n -> WalRecords] : n \in 0..MaxWalRecords}
    /\ wMode \in BOOLEAN
    /\ wFile = <<>>
    /\ wPc = [pc |-> "open", n |-> 0]
    /\ wOut = <<>>

\* w.Write(kind, key, data) of the next record; its error is not looked at
WalWrite ==
    /\ wPc.pc = "open"
    /\ wPc.n < Len(wRecs)
    /\ wFile' = WALFileWrite(wFile, wRecs[wPc.n + 1], wMode).file
    /\ wPc' = [wPc EXCEPT !.n = @ + 1]
    /\ UNCHANGED <<wRecs, wMode, wOut, exceptWal>>

\* the process dies inside w.Write of the next record: some of its bytes,
\* not all, are in the file
WalTornWrite ==
    /\ wPc.pc = "open"
    /\ wPc.n < Len(wRecs)
    /\ wMode
    /\ \E m \in 1..Len(jsonMarshal(wRecs[wPc.n + 1])) :
           wFile' = wFile \o SubSeq(jsonMarshal(wRecs[wPc.n + 1]) \o <<entrySeparator>>,
                                    1, m)
    /\ wPc' = [wPc EXCEPT !.pc = "torn"]
    /\ UNCHANGED <<wRecs, wMode, wOut, exceptWal>>

\* w.Close() after the last Write
WalClose ==
    /\ wPc.pc = "open"
    /\ wPc.n = Len(wRecs)
    /\ wPc' = [wPc EXCEPT !.pc = "closed"]
    /\ UNCHANGED <<wRecs, wMode, wFile, wOut, exceptWal>>

\* LoadWAL(fileName) of the closed file, or of the file the crash left
WalLoad ==
    /\ wPc.pc \in {"closed", "torn"}
    /\ wOut' = <<LoadWALFile(wFile)>>
    /\ wPc' = [wPc EXCEPT !.pc = IF wPc.pc = "closed" THEN "loaded" ELSE "loadedTorn"]
    /\ UNCHANGED <<wRecs, wMode, wFile, exceptWal>>

NextWal ==
    \/ WalWrite
    \/ WalTornWrite
    \/ WalClose
    \/ WalLoad

SpecWal == InitWal /\ [][NextWal]_vars

----------------------------------------------------------------------------
(* The k-way merge on its own: parallellMerge over every list of inputs     *)

\* the keys of the merge inputs: the empty string and two others
MergeKeys == {<<>>} \cup Keys

MergeEntries == [key : MergeKeys, kind : {RecordKindWrite, RecordKindDelete}, data : Values]

\* an iterator yields strictly ascending keys
Ascending(it) == \A i \in 1..(Len(it) - 1) : StrLess(it[i].key, it[i + 1].key)

MergeIterators ==
    {it \in UNION {[1..n -> MergeEntries] : n \in 0..MaxMergeLen} : Ascending(it)}

MergeInputs == UNION {[1..n -> MergeIterators] : n \in 1..MaxMergeInputs}

InitMerge ==
    /\ InitTree
    /\ IdleUnits
    /\ mIn \in MergeInputs
    /\ mOut = <<>>
    /\ IdleLocks
    /\ IdleWal
    /\ IdleSst

\* parallellMerge(mIn, tbl): mOut holds the stream of its Write calls
RunMerge ==
    /\ mOut = <<>>
    /\ mOut' = <<mergeWrites(getEntries(mIn), <<>>)>>
    /\ UNCHANGED <<mIn, exceptMerge>>

NextMerge == RunMerge

SpecMerge == InitMerge /\ [][NextMerge]_vars

----------------------------------------------------------------------------
(* The SSTable on its own: a builder, Write of entries in strictly          *)
(* ascending key order, Build, and then Iterator/Next to the end or Read.   *)
(* The builder has the block size of NewSSTable or a small one, with which  *)
(* a few entries give several anchors.                                      *)

\* keys: the empty key, a, b, c, and a byte that is no UTF-8
SstKeys == {<<>>, <<97>>, <<98>>, <<99>>, <<128>>}

SstEntries == [key : SstKeys, kind : {RecordKindWrite, RecordKindDelete}, data : {<<>>, <<120>>}]

InitSst ==
    /\ InitTree
    /\ IdleUnits
    /\ IdleMerge
    /\ IdleLocks
    /\ IdleWal
    /\ sIn \in {e \in UNION {[1..n -> SstEntries] : n \in 1..MaxSstEntries} : Ascending(e)}
    /\ sBlock \in {defaultSparseIndexBlockSize, SmallBlockSize}
    /\ sTbl = <<>>
    /\ sOut = <<>>

\* NewSSTable, Write of every entry, Build
SstBuild ==
    /\ sTbl = <<>>
    /\ sTbl' = <<LoadSSTable(BuildFiles(writeAll(NewSSTable(sBlock), sIn)))>>
    /\ UNCHANGED <<sIn, sBlock, sOut, exceptSst>>

\* the cursor offset at which Next gives no further entry, from offset off on
RECURSIVE iterateEnd(_, _)
iterateEnd(t, off) ==
    IF SSTableIteratorNext(t, off).nil THEN off
    ELSE iterateEnd(t, SSTableIteratorNext(t, off).nextIndexOffset)

\* tbl.Iterator() and Next() until it gives nil
SstIterate ==
    /\ sTbl # <<>>
    /\ sOut' = <<[op |-> "iterate",
                  entries |-> sstableChunkEntries(sTbl[1], SSTableIterator(sTbl[1])),
                  end |-> iterateEnd(sTbl[1], 0)]>>
    /\ UNCHANGED <<sIn, sBlock, sTbl, exceptSst>>

\* tbl.Read(key); fp: the bloom filter accepts the key though it was not added
SstRead(key, fp) ==
    /\ sTbl # <<>>
    /\ sOut' = <<[op |-> "read", key |-> key, fp |-> fp,
                  r |-> SSTableRead(sTbl[1], key, fp)]>>
    /\ UNCHANGED <<sIn, sBlock, sTbl, exceptSst>>

NextSst ==
    \/ SstBuild
    \/ SstIterate
    \/ \E key \in SstKeys, fp \in BOOLEAN : SstRead(key, fp)

SpecSst == InitSst /\ [][NextSst]_vars

----------------------------------------------------------------------------
(* The skiplist on its own, with its towers: NewSkipList, then Insert, Get,  *)
(* Iterate and Len in any order, as the tests of the package call them.      *)
(* nodes[1] is the head (key and value nil), a node pointer is an index of   *)
(* nodes and nil is 0; next[i + 1] is the source's next[i]. A nil key or     *)
(* value pointer is the empty sequence.                                      *)

SkipKeys == {<<97>>, <<98>>, <<99>>}
SkipValues == {1, 2}

\* NewSkipList(numLayers)
NewSkipListOf(numLayers) ==
    [nodes |-> <<[key |-> <<>>, value |-> <<>>, next |-> [i \in 1..numLayers |-> 0]]>>,
     numLayers |-> numLayers, numEntries |-> 0]

\* a walk that stays where it is
SkipListWalk_Stay(l, node, i, key) == node

\* Get and Insert, the inner loop at level i from node on:
\* for node.next[i] != nil && *node.next[i].key < key { node = node.next[i] }
RECURSIVE SkipListWalk(_, _, _, _)
SkipListWalk(l, node, i, key) ==
    IF l.nodes[node].next[i + 1] # 0
       /\ StrLess(l.nodes[l.nodes[node].next[i + 1]].key[1], key)
    THEN SkipListWalk(l, l.nodes[node].next[i + 1], i, key)
    ELSE node

\* Get and Insert, the outer loop from level i down with the walk of level i
\* ended on node: update[i] for every level (Get keeps the last only)
RECURSIVE SkipListSearch(_, _, _, _, _)
SkipListSearch(l, node, i, key, update) ==
    IF i = 0 THEN [update EXCEPT ![0] = node]
    ELSE SkipListSearch(l, SkipListWalk(l, node, i - 1, key), i - 1, key,
                        [update EXCEPT ![i] = node])

\* update of the whole search, from the head at the top level
SkipListUpdate(l, key) ==
    SkipListSearch(l, SkipListWalk(l, 1, l.numLayers - 1, key), l.numLayers - 1, key,
                   [i \in 0..(l.numLayers - 1) |-> 0])

\* whether final := node.next[0] holds the key
SkipListFinal(l, node, key) ==
    /\ l.nodes[node].next[1] # 0
    /\ l.nodes[l.nodes[node].next[1]].key # <<>>
    /\ l.nodes[l.nodes[node].next[1]].key[1] = key

\* SkipList.Get: (value pointer, exists); node is where the search ended
SkipListGet(l, key, node) ==
    IF SkipListFinal(l, node, key)
    THEN [value |-> l.nodes[l.nodes[node].next[1]].value, exists |-> TRUE]
    ELSE [value |-> <<>>, exists |-> FALSE]

\* SkipList.Insert: the list afterwards and the returned old-value pointer;
\* update is what the search left, numLevels what randomNumLevels returned
SkipListInsert(l, key, value, update, numLevels) ==
    IF SkipListFinal(l, update[0], key)
    THEN [list |-> [l EXCEPT !.nodes[update[0]].value = <<value>>],
          old |-> l.nodes[update[0]].value]
    ELSE [list |->
            [l EXCEPT
               !.nodes =
                  [n \in 1..Len(l.nodes) |->
                      [l.nodes[n] EXCEPT
                         !.next = [i \in 1..Len(@) |->
                                     IF i <= numLevels /\ update[i - 1] = n
                                     THEN Len(l.nodes) + 1 ELSE @[i]]]]
                  \o <<[key |-> <<key>>, value |-> <<value>>,
                        next |-> [i \in 1..numLevels |->
                                    l.nodes[update[i - 1]].next[i]]]>>,
               !.numEntries = @ + 1],
          old |-> <<>>]

\* SkipList.Iterate and SkiplistElement.Next from node on until nil: the
\* nodes visited
RECURSIVE SkipListIterate(_, _)
SkipListIterate(l, node) ==
    IF node = 0 THEN <<>> ELSE <<node>> \o SkipListIterate(l, l.nodes[node].next[1])

InitSkip ==
    /\ InitTree
    /\ IdleMerge
    /\ IdleLocks
    /\ IdleWal
    /\ IdleSst
    /\ IdleChunk
    /\ IdleBuilder
    /\ IdleList
    /\ IdleRotate
    /\ kList = NewSkipListOf(SkipLayers)
    /\ kHist = <<>>
    /\ kOut = <<>>

\* l.Insert(key, value), then l.Len(); ins is what Insert makes of the list
SkipInsertCall(key, value, ins) ==
    /\ Len(kHist) < MaxInserts
    /\ kList' = ins.list
    /\ kHist' = Append(kHist, [key |-> key, value |-> value])
    /\ kOut' = <<[op |-> "Insert", key |-> key, old |-> ins.old,
                  len |-> ins.list.numEntries]>>
    /\ UNCHANGED exceptSkip

\* l.Get(key)
SkipGetCall(key) ==
    /\ kOut' = <<[op |-> "Get", key |-> key,
                  r |-> SkipListGet(kList, key, SkipListUpdate(kList, key)[0])]>>
    /\ UNCHANGED <<kList, kHist, exceptSkip>>

\* l.Iterate() and Next() until it returns nil: the keys visited
SkipIterateCall(visited) ==
    /\ kOut' = <<[op |-> "Iterate",
                  keys |-> [i \in 1..Len(visited) |-> kList.nodes[visited[i]].key[1]]]>>
    /\ UNCHANGED <<kList, kHist, exceptSkip>>

\* randomNumLevels returns any number of levels from 1 to numLayers
NextSkip ==
    \/ \E key \in SkipKeys, value \in SkipValues, numLevels \in 1..kList.numLayers :
          \E ins \in {SkipListInsert(kList, key, value, SkipListUpdate(kList, key),
                                     numLevels)} :
             SkipInsertCall(key, value, ins)
    \/ \E key \in SkipKeys : SkipGetCall(key)
    \/ \E visited \in {SkipListIterate(kList, kList.nodes[1].next[1])} :
          SkipIterateCall(visited)

SpecSkip == InitSkip /\ [][NextSkip]_vars

----------------------------------------------------------------------------
(* The memtable on its own, over the bytes of its WAL file: newSkipListChunk *)
(* on a new file, then set in any order with appends that work or fail, and  *)
(* newSkipListChunk again on the file by a process started anew.             *)

\* keys: a, b, a byte that is no UTF-8
ChunkKeys == {<<97>>, <<98>>, <<255>>}

ChunkData == {<<>>, <<120>>, <<120, 121>>}

\* a set that goes on to the skiplist whatever Write returned
setAfterWrite_Always(c, w, key, kind, data) ==
    [chunk |-> skiplistChunkInsert(c, key, kind, data), file |-> w.file, err |-> w.err]

\* skiplistChunk.set with w what l.wal.Write(kind, key, data) made of the file
setAfterWrite(c, w, key, kind, data) ==
    IF w.err THEN [chunk |-> c, file |-> w.file, err |-> TRUE]
    ELSE [chunk |-> skiplistChunkInsert(c, key, kind, data), file |-> w.file,
          err |-> FALSE]

\* newSkipListChunk over the bytes file: the entries LoadWAL returns (nil with
\* its error, which is dropped) are inserted, dataSize is 0
newSkipListChunkOf(file) ==
    MemChunk(1, <<randomFileChars[1]>>, ReplayWAL(NewSkipList, LoadWALFile(file).entries),
             0)

InitChunk ==
    /\ InitTree
    /\ IdleMerge
    /\ IdleLocks
    /\ IdleWal
    /\ IdleSst
    /\ IdleSkip
    /\ IdleBuilder
    /\ IdleList
    /\ IdleRotate
    /\ cChunk = <<newSkipListChunkOf(<<>>)>>
    /\ cFiles = <<>>
    /\ cOut = [op |-> "new", err |-> FALSE, n |-> 0]

\* c.set(key, RecordKindWrite, data); s is what set makes of chunk and file
ChunkSetCall(s) ==
    /\ cOut.n < MaxChunkSets
    /\ cChunk' = <<s.chunk>>
    /\ cFiles' = s.file
    /\ cOut' = [op |-> "set", err |-> s.err, n |-> cOut.n + 1]
    /\ UNCHANGED exceptChunk

\* the process ends and a new one calls newSkipListChunk on the file
ChunkReopen ==
    /\ cOut.op = "set"
    /\ cChunk' = <<newSkipListChunkOf(cFiles)>>
    /\ cOut' = [cOut EXCEPT !.op = "new", !.err = FALSE]
    /\ UNCHANGED <<cFiles, exceptChunk>>

NextChunk ==
    \/ \E key \in ChunkKeys, data \in ChunkData, walOk \in BOOLEAN :
          \E w \in {WALFileWrite(cFiles, [Kind |-> RecordKindWrite, Key |-> key,
                                          Data |-> data], walOk)} :
             ChunkSetCall(setAfterWrite(cChunk[1], w, key, RecordKindWrite, data))
    \/ ChunkReopen

SpecChunk == InitChunk /\ [][NextChunk]_vars

----------------------------------------------------------------------------
(* The builder on its own: NewSSTable, then Write with any key in any order  *)
(* and Build, so that Write is also called with keys out of order and on a   *)
(* built table.                                                              *)

\* keys: the empty key, a, b, ab
BuilderKeys == {<<>>, <<97>>, <<98>>, <<97, 98>>}

InitBuilder ==
    /\ InitTree
    /\ IdleMerge
    /\ IdleLocks
    /\ IdleWal
    /\ IdleSst
    /\ IdleSkip
    /\ IdleChunk
    /\ IdleList
    /\ IdleRotate
    /\ bTbl \in {<<NewSSTable(bs)>> : bs \in {defaultSparseIndexBlockSize, SmallBlockSize}}
    /\ bOut = [n |-> 0, err |-> FALSE, key |-> <<>>]

\* s.Write(key, RecordKindWrite, data); w is what Write makes of the builder
BuilderWriteCall(key, w) ==
    /\ bOut.n < MaxBuilderWrites
    /\ bTbl' = <<w.b>>
    /\ bOut' = [n |-> bOut.n + 1, err |-> w.err, key |-> key]
    /\ UNCHANGED exceptBuilder

\* s.Build(), as far as the builder goes: built is set
BuilderBuildCall ==
    /\ ~bTbl[1].built
    /\ bTbl' = <<[bTbl[1] EXCEPT !.built = TRUE]>>
    /\ UNCHANGED <<bOut, exceptBuilder>>

NextBuilder ==
    \/ \E key \in BuilderKeys, data \in {<<>>, <<120>>} :
          \E w \in {BuilderWrite(bTbl[1], key, RecordKindWrite, data)} :
             BuilderWriteCall(key, w)
    \/ BuilderBuildCall

SpecBuilder == InitBuilder /\ [][NextBuilder]_vars

----------------------------------------------------------------------------
(* The linked list on its own. Nodes are heap objects, numbered in the order *)
(* they are allocated; 0 is nil. A removed node stays on the heap, with the  *)
(* links it had.                                                             *)

ListValues == {1, 2}

\* NewLinkedList
NewLinkedList == [nodes |-> <<>>, first |-> 0]

\* Node.Next, Node.Prev on a node pointer that may be nil
NodeNext(l, n) == IF n = 0 THEN 0 ELSE l.nodes[n].next
NodePrev(l, n) == IF n = 0 THEN 0 ELSE l.nodes[n].prev

\* the loop of Insert, at counter i: the error, or prev and node after it
RECURSIVE InsertLoop(_, _, _, _, _)
InsertLoop(l, i, index, prev, node) ==
    IF i >= index THEN [err |-> FALSE, prev |-> prev, node |-> node]
    ELSE IF node = 0 THEN [err |-> TRUE, prev |-> prev, node |-> node]
    ELSE InsertLoop(l, i + 1, index, node, NodeNext(l, node))

\* the heap with newNode allocated, and node.prev and prev.next set to it
LinkNew(l, value, prev, node) ==
    LET id == Len(l.nodes) + 1
        n1 == Append(l.nodes, [value |-> value, next |-> node, prev |-> prev])
        n2 == IF node # 0 THEN [n1 EXCEPT ![node].prev = id] ELSE n1
        n3 == IF prev # 0 THEN [n2 EXCEPT ![prev].next = id] ELSE n2
    IN [nodes |-> n3, first |-> IF prev = 0 THEN id ELSE l.first]

\* LinkedList.Insert
LinkedListInsert(l, index, value) ==
    LET w == InsertLoop(l, 0, index, 0, l.first)
    IN IF w.err THEN [l |-> l, err |-> TRUE]
       ELSE [l |-> LinkNew(l, value, w.prev, w.node), err |-> FALSE]

\* LinkedList.InsertAfter: first is not touched
LinkedListInsertAfter(l, node, value) ==
    [LinkNew(l, value, node, l.nodes[node].next) EXCEPT !.first = l.first]

\* LinkedList.InsertBefore
LinkedListInsertBefore(l, node, value) ==
    LinkNew(l, value, l.nodes[node].prev, node)

\* LinkedList.Remove without the update of node.next.prev
LinkedListRemove_NoPrev(l, node) ==
    LET nx == l.nodes[node].next
        pv == l.nodes[node].prev
    IN [nodes |-> IF pv # 0 THEN [l.nodes EXCEPT ![pv].next = nx] ELSE l.nodes,
        first |-> IF pv # 0 THEN l.first ELSE nx]

\* LinkedList.Remove
LinkedListRemove(l, node) ==
    LET nx == l.nodes[node].next
        pv == l.nodes[node].prev
        n1 == IF nx # 0 THEN [l.nodes EXCEPT ![nx].prev = pv] ELSE l.nodes
    IN [nodes |-> IF pv # 0 THEN [n1 EXCEPT ![pv].next = nx] ELSE n1,
        first |-> IF pv # 0 THEN l.first ELSE nx]

\* the nodes from node on, following Next, at most fuel of them
RECURSIVE NodeChain(_, _, _)
NodeChain(l, node, fuel) ==
    IF node = 0 \/ fuel = 0 THEN <<>>
    ELSE <<node>> \o NodeChain(l, NodeNext(l, node), fuel - 1)

\* LinkedList.toArray
toArray(l) ==
    LET c == NodeChain(l, l.first, Len(l.nodes))
    IN [k \in 1..Len(c) |-> l.nodes[c[k]].value]

\* a sequence with v put at index (from 0), and one with position p taken out
SeqInsert(q, index, v) ==
    SubSeq(q, 1, index) \o <<v>> \o SubSeq(q, index + 1, Len(q))
SeqRemove(q, p) == SubSeq(q, 1, p - 1) \o SubSeq(q, p + 1, Len(q))

InitList ==
    /\ InitTree
    /\ IdleMerge
    /\ IdleLocks
    /\ IdleWal
    /\ IdleSst
    /\ IdleSkip
    /\ IdleChunk
    /\ IdleBuilder
    /\ IdleRotate
    /\ lList = NewLinkedList
    /\ lOut = [n |-> 0, seq |-> <<>>, err |-> FALSE]

\* l.Insert(index, value), index from 0 to one past the length
ListInsertCall(index, value, w) ==
    /\ lOut.n < MaxListOps
    /\ lList' = w.l
    /\ lOut' = [n |-> lOut.n + 1,
                seq |-> IF index <= Len(lOut.seq)
                        THEN SeqInsert(lOut.seq, index, value) ELSE lOut.seq,
                err |-> w.err]
    /\ UNCHANGED exceptList

\* l.InsertAfter(node, value), node the p-th node of the list
ListInsertAfterCall(p, node, value) ==
    /\ lOut.n < MaxListOps
    /\ lList' = LinkedListInsertAfter(lList, node, value)
    /\ lOut' = [n |-> lOut.n + 1, seq |-> SeqInsert(lOut.seq, p, value), err |-> FALSE]
    /\ UNCHANGED exceptList

\* l.InsertBefore(node, value), node the p-th node of the list
ListInsertBeforeCall(p, node, value) ==
    /\ lOut.n < MaxListOps
    /\ lList' = LinkedListInsertBefore(lList, node, value)
    /\ lOut' = [n |-> lOut.n + 1, seq |-> SeqInsert(lOut.seq, p - 1, value),
                err |-> FALSE]
    /\ UNCHANGED exceptList

\* l.Remove(node), node the p-th node of the list
ListRemoveCall(p, node) ==
    /\ lOut.n < MaxListOps
    /\ lList' = LinkedListRemove(lList, node)
    /\ lOut' = [n |-> lOut.n + 1, seq |-> SeqRemove(lOut.seq, p), err |-> FALSE]
    /\ UNCHANGED exceptList

NextList ==
    \/ \E index \in 0..(MaxListOps + 1), value \in ListValues :
          /\ index <= Len(lOut.seq) + 1
          /\ \E w \in {LinkedListInsert(lList, index, value)} :
                ListInsertCall(index, value, w)
    \/ \E c \in {NodeChain(lList, lList.first, Len(lList.nodes))} :
          \E p \in 1..Len(c) :
             \/ \E value \in ListValues : ListInsertAfterCall(p, c[p], value)
             \/ \E value \in ListValues : ListInsertBeforeCall(p, c[p], value)
             \/ ListRemoveCall(p, c[p])

SpecList == InitList /\ [][NextList]_vars

----------------------------------------------------------------------------
(* Rotation under a concurrent Get, no compaction. Set writes                *)
(* tree.layers[0].chunks and tree.rootChunk without a lock and Get reads     *)
(* them without one: a data race. A read returns the value of any write to   *)
(* that location that no happens-before edge has made stale. The edges are   *)
(* the call of Get (everything written before it) and the lock of a          *)
(* skiplist: a reader that locks a skiplist after the writer unlocked it     *)
(* sees what the writer had written by then. rMem keeps, for each of the two *)
(* locations, the values written, and for each chunk how many of them were   *)
(* written when the writer last unlocked its skiplist.                       *)

\* the chunk object with identity id
ChunkById(t, id) == CHOOSE c \in TreeChunks(t) : c.id = id

\* the larger of two positions
Latest(a, b) == IF a > b THEN a ELSE b

InitRotate ==
    /\ InitTree
    /\ IdleMerge
    /\ IdleLocks
    /\ IdleWal
    /\ IdleSst
    /\ IdleSkip
    /\ IdleChunk
    /\ IdleBuilder
    /\ IdleList
    /\ rMem = [root |-> <<tree.rootChunk.id>>,
               l0 |-> <<[j \in 1..Len(tree.layers[0].chunks) |->
                           tree.layers[0].chunks[j].id]>>,
               sync |-> [id \in 1..MaxChunks |-> [root |-> 1, l0 |-> 1]]]
    /\ rSet = [pc |-> "idle", key |-> <<>>, data |-> <<>>]
    /\ rGet = [pc |-> "idle", key |-> <<>>, fr |-> 1, fl |-> 1, known |-> FALSE,
               exists |-> FALSE]

\* Set up to its write of tree.layers[0].chunks: the record goes into the
\* memtable (its skiplist is locked and unlocked), and when the memtable is
\* over its size the root is put in front of layer 0
RotateSetCall(key, data, s) ==
    /\ alive
    /\ rSet.pc = "idle"
    /\ sets < MaxSets
    /\ sets' = sets + 1
    /\ walFiles' = s.files
    /\ IF UintGreater(s.chunk.dataSize, tree.maxRootChunkSize)
       THEN /\ nextId <= MaxChunks
            /\ tree' = [tree EXCEPT !.rootChunk = s.chunk,
                                    !.layers[0].chunks = <<s.chunk>> \o @]
            /\ rMem' = [rMem EXCEPT
                          !.sync[s.chunk.id] = [root |-> Len(rMem.root),
                                                l0 |-> Len(rMem.l0)],
                          !.l0 = Append(@, <<s.chunk.id>> \o rMem.l0[Len(rMem.l0)])]
            /\ rSet' = [pc |-> "swap", key |-> key, data |-> data]
            /\ UNCHANGED <<ret, written>>
       ELSE /\ tree' = [tree EXCEPT !.rootChunk = s.chunk]
            /\ rMem' = [rMem EXCEPT
                          !.sync[s.chunk.id] = [root |-> Len(rMem.root),
                                                l0 |-> Len(rMem.l0)]]
            /\ ret' = [op |-> "Set", err |-> FALSE]
            /\ written' = [written EXCEPT
                             ![key] = <<[kind |-> RecordKindWrite, data |-> data]>>]
            /\ UNCHANGED rSet
    /\ UNCHANGED <<sstFiles, manifest, alive, mp, nextId, reopens, tombs, rGet,
                   exceptRotate>>

\* the rest of Set: the new memtable is created under the name r (a replay
\* of a WAL of that name locks its skiplist), tree.rootChunk is written, the
\* manifest is saved and Set returns
RotateSetSwap(r, nc) ==
    /\ rSet.pc = "swap"
    /\ \E t1 \in {[tree EXCEPT !.rootChunk = MemChunk(nextId, <<r>>, nc.list,
                                                       nc.dataSize)]} :
          /\ tree' = t1
          /\ manifest' = <<ManifestOf(t1)>>
    /\ walFiles' = nc.files
    /\ nextId' = nextId + 1
    /\ rMem' = [rMem EXCEPT
                  !.sync[nextId] = IF LoadWAL(walFiles, <<r>>) = <<>>
                                   THEN [root |-> 1, l0 |-> 1]
                                   ELSE [root |-> Len(rMem.root), l0 |-> Len(rMem.l0)],
                  !.root = Append(@, nextId)]
    /\ ret' = [op |-> "Rotate", err |-> FALSE]
    /\ written' = [written EXCEPT
                     ![rSet.key] = <<[kind |-> RecordKindWrite,
                                      data |-> rSet.data]>>]
    /\ rSet' = [pc |-> "idle", key |-> <<>>, data |-> <<>>]
    /\ UNCHANGED <<sstFiles, alive, mp, reopens, sets, tombs, rGet, exceptRotate>>

\* Get is called: what was written before the call is not stale for it
RotateGetCall(key) ==
    /\ alive
    /\ rGet.pc \in {"idle", "done"}
    /\ rGet' = [pc |-> "root", key |-> key, fr |-> Len(rMem.root),
                fl |-> Len(rMem.l0), known |-> written[key] # NoRecord,
                exists |-> FALSE]
    /\ UNCHANGED <<treeVars, rMem, rSet, exceptRotate>>

\* Get reads tree.rootChunk, the v-th value written to it, and looks the key
\* up in that memtable
RotateGetRoot(v, g) ==
    /\ rGet.pc = "root"
    /\ v >= rGet.fr
    /\ rGet' = IF g.done
               THEN [rGet EXCEPT !.pc = "done", !.exists = g.exists]
               ELSE [rGet EXCEPT !.pc = "layers",
                                 !.fl = Latest(@, rMem.sync[rMem.root[v]].l0)]
    /\ UNCHANGED <<treeVars, rMem, rSet, exceptRotate>>

\* Get reads tree.layers[0], the v-th value written to its chunks, scans it
\* and the layers below and returns
RotateGetLayers(v, g) ==
    /\ rGet.pc = "layers"
    /\ v >= rGet.fl
    /\ rGet' = [rGet EXCEPT !.pc = "done", !.exists = g.exists]
    /\ UNCHANGED <<treeVars, rMem, rSet, exceptRotate>>

NextRotate ==
    \/ \E key \in Keys, data \in Values :
          \E s \in {skiplistChunkSet(tree.rootChunk, walFiles, key, RecordKindWrite,
                                     data, TRUE)} :
             RotateSetCall(key, data, s)
    \/ \E r \in RandDraws(<<>>) :
          \E nc \in {newSkipListChunk(walFiles, <<r>>)} : RotateSetSwap(r, nc)
    \/ \E key \in Keys : RotateGetCall(key)
    \/ \E v \in 1..Len(rMem.root) :
          \E g \in {GetChunks(<<ChunkById(tree, rMem.root[v])>>, 1, rGet.key, {})} :
             RotateGetRoot(v, g)
    \/ \E v \in 1..Len(rMem.l0) :
          \E g \in {GetLayers([tree EXCEPT !.layers[0].chunks =
                                   [j \in 1..Len(rMem.l0[v]) |->
                                       ChunkById(tree, rMem.l0[v][j])]],
                               0, rGet.key, {})} :
             RotateGetLayers(v, g)

SpecRotate == InitRotate /\ [][NextRotate]_vars

----------------------------------------------------------------------------
(* Properties *)

\* Get returned (rec.data, true), with no error and no panic
GetFound(g, rec) == ~g.panic /\ ~g.err /\ g.exists /\ g.data = rec.data

\* Get returned (empty, false), with no error and no panic
GetMissed(g) == ~g.panic /\ ~g.err /\ ~g.exists /\ g.data = <<>>

\* the bloom outcomes a Get of tree t can meet
BloomFps(t) == SUBSET SstIds(t)

\* C1. Read-your-writes: in a process that has not been restarted and has
\* not crashed, Get(k) returns (v, true) for the value v of the last Set of
\* k, whatever Sets (repeated keys, rotations) came before.
C1_ReadYourWrites ==
    (alive /\ reopens = 0) =>
        \A k \in Keys :
            written[k] # NoRecord =>
                \A fp \in BloomFps(tree) :
                    GetFound(TreeGet(tree, k, fp), written[k][1])

\* C2. Reopen recovery: right after NewLsmTree has opened rootDir again,
\* Get(k) returns (v, true) for every key, v the last value Set for k before
\* the stop; this includes a tree that never rotated.
C2_ReopenRecovery ==
    (alive /\ reopens > 0 /\ ret.op = "Open") =>
        \A k \in Keys :
            written[k] # NoRecord =>
                \A fp \in BloomFps(tree) :
                    GetFound(TreeGet(tree, k, fp), written[k][1])

\* the step on which a mergeLayer call completes
MergeLayerReturns == mp.pc = "merge" /\ nextId' = nextId + 1 /\ reopens' = reopens

\* the Get result g1 equals the Get result g0 (value and found flag)
SameGet(g0, g1) ==
    (~g0.panic /\ ~g0.err) =>
        (~g1.panic /\ ~g1.err /\ g1.exists = g0.exists /\ g1.data = g0.data)

\* C3. Compaction does not change what Get returns: for every key, Get(k)
\* after mergeLayer(i) has completed returns the value and found flag that
\* Get(k) returned before it, for every layer i.
C3_MergeKeepsGet ==
    [][MergeLayerReturns =>
          \A k \in Keys :
              \A fp0 \in BloomFps(tree), fp1 \in BloomFps(tree') :
                  SameGet(TreeGet(tree, k, fp0), TreeGet(tree', k, fp1))]_vars

\* C4. Postcondition of mergeLayer(i): the source layer's chunk list is empty
\* (i not the last layer), the target layer holds one more chunk than before
\* with the new SSTable at index 0, and the artifacts of every source chunk
\* are gone from disk.
C4_MergeLayerPost ==
    [][MergeLayerReturns =>
          /\ mp.i # NumLayers - 1 => tree'.layers[mp.i].chunks = <<>>
          /\ Len(tree'.layers[NextLayerIdx(mp.i)].chunks)
                 = Len(tree.layers[NextLayerIdx(mp.i)].chunks) + 1
          /\ tree'.layers[NextLayerIdx(mp.i)].chunks[1].id = nextId
          /\ tree'.layers[NextLayerIdx(mp.i)].chunks[1].chunkType = chunkTypeSSTable
          /\ \A c \in TreeChunks(tree) :
                 c.id \in MergedIds =>
                     IF c.chunkType = chunkTypeSkiplist
                     THEN ~walFiles'[c.name].exists
                     ELSE ~sstFiles'[c.name].exists]_vars

\* the keys that occur in at least one merge input
InputKeys(its) ==
    UNION {{its[i][j].key : j \in 1..Len(its[i])} : i \in 1..Len(its)}

\* the lowest-indexed input that contains the key
FirstInput(its, key) ==
    CHOOSE i \in 1..Len(its) :
        /\ \E j \in 1..Len(its[i]) : its[i][j].key = key
        /\ \A h \in 1..(i - 1) : \A j \in 1..Len(its[h]) : its[h][j].key # key

\* C5. K-way merge result: over inputs that each yield strictly ascending keys
\* (the empty string among them), the stream written to the builder has
\* strictly ascending keys, holds every key of every input, and carries for
\* each key the value of the lowest-indexed input that contains it.
C5_MergeResult ==
    mOut # <<>> =>
        /\ Ascending(mOut[1])
        /\ {mOut[1][i].key : i \in 1..Len(mOut[1])} = InputKeys(mIn)
        /\ \A i \in 1..Len(mOut[1]) :
               \E j \in 1..Len(mIn[FirstInput(mIn, mOut[1][i].key)]) :
                   /\ mIn[FirstInput(mIn, mOut[1][i].key)][j].key = mOut[1][i].key
                   /\ mIn[FirstInput(mIn, mOut[1][i].key)][j].data = mOut[1][i].data

\* C6. Tombstone shadowing: when the newest record for k is a tombstone,
\* Get(k) returns not found, whatever older WRITE of k the tree holds, also
\* after the chunk that holds the tombstone was compacted.
C6_TombstoneShadows ==
    alive =>
        \A k \in Keys :
            (written[k] # NoRecord /\ written[k][1].kind = RecordKindDelete) =>
                \A fp \in BloomFps(tree) : GetMissed(TreeGet(tree, k, fp))

\* the locations Get walks, in its order: layer i on
RECURSIVE LayerLocations(_, _)
LayerLocations(t, i) ==
    IF i > NumLayers - 1 THEN <<>>
    ELSE t.layers[i].chunks \o LayerLocations(t, i + 1)

\* the locations Get walks, in its order: the memtable, then the layers
Locations(t) == <<t.rootChunk>> \o LayerLocations(t, 0)

\* the chunk holds a record for the key
Contains(c, key) ==
    IF c.chunkType = chunkTypeSkiplist
    THEN \E i \in 1..Len(c.list.elems) : c.list.elems[i].key = key
    ELSE key \in c.tbl.filter

\* Get's result g is the record rec of the first location that holds the key
ShadowedBy(g, rec) == (rec.exists /\ rec.kind = RecordKindWrite) => GetFound(g, rec)

\* C7. Shadowing order of Get: Get(k) returns the record of the first location
\* that contains k in the order memtable, layer 0 chunks in list order, layer
\* 1 chunks in list order, ...: a WRITE there gives (value, true); with k in
\* no location the result is (empty, false) and no error.
C7_ShadowingOrder ==
    alive =>
        \A k \in Keys :
            \A fp \in BloomFps(tree) :
                \A locs \in {Locations(tree)} :
                    \A holders \in {{j \in 1..Len(locs) : Contains(locs[j], k)}} :
                        IF holders = {}
                        THEN GetMissed(TreeGet(tree, k, fp))
                        ELSE \A j \in holders :
                                 (\A h \in holders : j <= h) =>
                                     ShadowedBy(TreeGet(tree, k, fp),
                                                ChunkGet(locs[j], k, {}))

\* C8. Rotation: a Set that leaves the memtable over maxRootChunkSize and
\* returns ok has put the previous memtable at layers[0].chunks[0] before the
\* rest of layer 0, made the root a new empty memtable (no entries, size 0)
\* under another name, and saved a manifest that names the new root and lists
\* the old memtable first in layer 0; any other Set leaves root and layers
\* as they are.
C8_Rotation ==
    [][sets' = sets + 1 =>
          IF nextId' # nextId
          THEN ~ret'.err =>
                   /\ tree'.layers[0].chunks[1].id = tree.rootChunk.id
                   /\ Tail(tree'.layers[0].chunks) = tree.layers[0].chunks
                   /\ tree'.rootChunk.list.elems = <<>>
                   /\ tree'.rootChunk.list.numEntries = 0
                   /\ tree'.rootChunk.dataSize = 0
                   /\ tree'.rootChunk.name # tree.rootChunk.name
                   /\ manifest' # NoManifest
                   /\ decodeManifest(manifest'[1]).Root.Name = tree'.rootChunk.name
                   /\ decodeManifest(manifest'[1]).Layers[0].Chunks[1].Name
                          = tree.rootChunk.name
          ELSE /\ tree'.rootChunk.id = tree.rootChunk.id
               /\ tree'.layers = tree.layers]_vars

\* C9. Compaction trigger: mergeLayer(i) runs only for a layer with
\* maxChunks > 0 and more chunks than maxChunks; the last layer, whose
\* maxChunks is 0, is never merged.
C9_MergeTrigger ==
    mp.pc = "merge" =>
        /\ tree.layers[mp.i].maxChunks > 0
        /\ Len(tree.layers[mp.i].chunks) > tree.layers[mp.i].maxChunks

\* the chunks whose artifacts exist in rootDir
OnDisk(wal, sst) ==
    {n \in MemNames : wal[n].exists} \cup {n \in SstNames : sst[n].exists}

\* C10. Manifest/disk agreement: once a manifest save has worked and the
\* rotation or the mergeLayer around it has returned, the chunks lsm.json
\* names are the chunks whose artifacts exist in rootDir; it never names a
\* chunk whose files were deleted. (The other half, no artifact without a
\* manifest entry, is asked of the process that created rootDir while no
\* merge is building its artifacts.)
C10_ManifestAgreesWithDisk ==
    [][manifest' # manifest =>
          /\ ManifestNames(manifest') \subseteq OnDisk(walFiles', sstFiles')
          /\ (mp'.pc # "merge" /\ reopens' = 0) =>
                 OnDisk(walFiles', sstFiles') \subseteq ManifestNames(manifest')]_vars


\* C11: mergeLayer deletes the artifacts of a source chunk only after the
\* manifest was saved; a mergeLayer whose save fails (lsm.json stays as it
\* was) deletes no WAL file and no SSTable file.
C11_DeleteAfterCommit ==
    [][(MergeLayerReturns /\ manifest' = manifest)
          => (walFiles' = walFiles /\ sstFiles' = sstFiles)]_vars

\* Get goes on to the next chunk after the result r of a chunk's get
GetPasses(r) == ~r.panic /\ ~r.err /\ r.kind # RecordKindDelete /\ ~r.exists

\* the positions of locs on which Get(key) calls get()
Consulted(locs, key, fp) ==
    {j \in 1..Len(locs) : \A i \in 1..(j - 1) : GetPasses(ChunkGet(locs[i], key, fp))}

\* C12: no read of a deleted chunk: a Get issued once mergeLayer has returned
\* calls get() on no chunk that mergeLayer called delete() on (the chunks of
\* the snapshot it merged).
C12_NoReadOfDeleted ==
    [][MergeLayerReturns =>
          \A k \in Keys :
              \A fp \in BloomFps(tree') :
                  \A locs \in {Locations(tree')} :
                      \A j \in Consulted(locs, k, fp) : locs[j].id \notin MergedIds]_vars

\* the goroutine of Get g or of mergeLayer can take a step
CanStep(g) == getPc[g].pc \in {"lock", "scan", "unlock"}

MlCanStep ==
    \/ mlPc.pc \in {"lock", "unlock"}
    \/ mlPc.pc = "wait" /\ locks[mlPc.k].holders = {}

\* C13: deadlock freedom: in no reachable state are the goroutines that are
\* inside Get or inside the locking of mergeLayer all blocked on a lock, and
\* every Get and every mergeLayer that has started to take locks comes to the
\* point where it has released them all.
C13_DeadlockFree ==
    /\ []((mlPc.pc # "idle" \/ \E g \in Readers : getPc[g].pc # "idle")
             => (MlCanStep \/ \E g \in Readers : CanStep(g)))
    /\ \A g \in Readers : (getPc[g].pc # "idle") ~> (getPc[g].pc = "idle")
    /\ (mlPc.pc # "idle") ~> (mlPc.pc = "idle")

\* C13, the case: mergeLayer waits for the lock of its layer, which one Get
\* holds while another Get waits behind the writer
C13_Witness ==
    /\ mlPc.pc = "wait"
    /\ \E g \in Readers : getPc[g].pc = "blocked"
    /\ \E g \in Readers : getPc[g].pc = "scan" /\ getPc[g].i = NumLayers

\* C14: a Set whose append to the WAL fails (the record reaches neither the
\* WAL file nor the memtable) returns an error.
C14_SetPropagatesWalError ==
    [][(sets' = sets + 1 /\ walFiles' = walFiles /\ tree' = tree) => ret'.err]_vars

\* the ids of the chunks of a layer, in list order
LayerIds(l) == [k \in 1..Len(l.chunks) |-> l.chunks[k].id]

\* C15: compaction makes progress: the mergeLayer that the compactor runs for
\* a layer over capacity (maxChunks > 0), with no rotation into that layer
\* since the merge began, leaves the layer with at most maxChunks chunks, so
\* that the loop comes to find no layer left to merge.
C15_CompactionProgress ==
    [][(/\ MergeLayerReturns
        /\ tree.layers[mp.i].maxChunks > 0
        /\ LayerIds(tree.layers[mp.i]) = mp.chunks)
          => ~OverCapacity(tree'.layers[mp.i])]_vars

\* C16: WAL round-trip: the records appended with Write to a WAL opened with
\* NewWAL and then closed are what LoadWAL of the file returns, with the same
\* kind, key and data, in append order, and no error.
C16_WalRoundTrip ==
    wPc.pc = "loaded" => (~wOut[1].err /\ wOut[1].entries = wRecs)

\* C17: WAL partial-write tolerance: LoadWAL of a file whose last record is
\* cut short returns, without error, the records written in full before it,
\* in append order, and the memtable built by replaying what LoadWAL returned
\* holds the key of each of them.
C17_WalPartialWrite ==
    wPc.pc = "loadedTorn" =>
        /\ ~wOut[1].err
        /\ wOut[1].entries = SubSeq(wRecs, 1, wPc.n)
        /\ \A i \in 1..wPc.n :
               SkipGet(ReplayWAL(NewSkipList, wOut[1].entries), wRecs[i].Key).exists

\* C18: builder/iterator round-trip: the entries written to the builder in
\* strictly ascending key order are what Iterator() and Next() yield up to the
\* end of the stream, in the same order with the same (kind, key, value), and
\* the stream ends with the cursor offset at the length of the index.
C18_IteratorRoundTrip ==
    (sOut # <<>> /\ sOut[1].op = "iterate") =>
        /\ sOut[1].entries = sIn
        /\ sOut[1].end = Len(sTbl[1].index)

\* C19: point read of present keys: Read of a key written to the builder
\* returns (kind, value, true) with the kind and value written for it, without
\* error or crash, whatever the number of anchors of the sparse index.
C19_ReadPresent ==
    (sOut # <<>> /\ sOut[1].op = "read") =>
        \A i \in 1..Len(sIn) :
            sIn[i].key = sOut[1].key =>
                sOut[1].r = [kind |-> sIn[i].kind, data |-> sIn[i].data,
                             exists |-> TRUE, err |-> FALSE, panic |-> FALSE]

\* C20: point read of absent keys: Read of a key that is not in the table
\* returns not found with no error and no crash, also when the bloom filter
\* accepts the key, and wherever the key sorts among the keys of the table.
C20_ReadAbsent ==
    (sOut # <<>> /\ sOut[1].op = "read") =>
        ((\A i \in 1..Len(sIn) : sIn[i].key # sOut[1].key) =>
            (~sOut[1].r.exists /\ ~sOut[1].r.err /\ ~sOut[1].r.panic))

\* the files of every chunk of tree t are in rootDir
ChunkFilesExist(t, wal, sst) ==
    \A c \in TreeChunks(t) :
        IF c.chunkType = chunkTypeSkiplist THEN wal[c.name].exists
        ELSE sst[c.name].exists

\* the chunks of a layer as (name, kind) in their order
ChunkIdentities(l) ==
    [j \in 1..Len(l.chunks) |-> <<l.chunks[j].name, l.chunks[j].chunkType>>]

\* C21. Manifest round-trip: save() of a tree whose chunk files all exist,
\* followed by load(rootDir), returns a tree with the same root chunk name,
\* the same maxRootChunkSize, the same number of layers, and in every layer
\* the same name, maxChunks and chunks (name and kind) in the same order.
C21_ManifestRoundTrip ==
    [][(ret.op # "Load" /\ ret'.op = "Load"
          /\ ChunkFilesExist(tree, walFiles, sstFiles)) =>
          /\ ~ret'.err
          /\ ret'.tree[1].rootChunk.name = tree.rootChunk.name
          /\ ret'.tree[1].maxRootChunkSize = tree.maxRootChunkSize
          /\ DOMAIN ret'.tree[1].layers = DOMAIN tree.layers
          /\ \A i \in DOMAIN tree.layers :
                /\ ret'.tree[1].layers[i].name = tree.layers[i].name
                /\ ret'.tree[1].layers[i].maxChunks = tree.layers[i].maxChunks
                /\ ChunkIdentities(ret'.tree[1].layers[i])
                      = ChunkIdentities(tree.layers[i])]_vars

\* C21, its case: a load after a save has returned a tree whose layers hold
\* two memtables in one layer and an SSTable, all with their files on disk
C21_Witness ==
    /\ ret.op = "Load"
    /\ ~ret.err
    /\ ChunkFilesExist(tree, walFiles, sstFiles)
    /\ \E i \in LayerIdx : Len(ret.tree[1].layers[i].chunks) >= 2
    /\ \E c \in TreeChunks(ret.tree[1]) : c.chunkType = chunkTypeSSTable

\* C22. mergeLayer on an empty source layer is a no-op: the chunk list of the
\* target layer stays as it is, no chunk is created (no chunk object, no
\* SSTable artifacts) and the manifest is not rewritten.
C22_EmptyMergeNoOp ==
    [][(mp.pc = "direct" /\ mp.chunks = <<>> /\ nextId' = nextId + 1
          /\ tree.layers[mp.i].chunks = <<>>) =>
          /\ tree'.layers[NextLayerIdx(mp.i)].chunks
                = tree.layers[NextLayerIdx(mp.i)].chunks
          /\ ~sstFiles'[mp.name].exists
          /\ manifest' = manifest]_vars

\* the value of the last Insert of key among the calls hist, none (the empty
\* sequence) if there is no such call
LastInsert(hist, key) ==
    LET at == {i \in 1..Len(hist) : hist[i].key = key}
    IN IF at = {} THEN <<>>
       ELSE <<hist[CHOOSE i \in at : \A j \in at : j <= i].value>>

\* C23. Skiplist map semantics: after any sequence of Insert calls, Get(k)
\* returns the value of the most recent Insert of k for every inserted key and
\* none for a key never inserted (so an Insert of one key does not change the
\* value under another).
C23_SkiplistMap ==
    (kOut # <<>> /\ kOut[1].op = "Get") =>
        /\ kOut[1].r.exists = (LastInsert(kHist, kOut[1].key) # <<>>)
        /\ kOut[1].r.value = LastInsert(kHist, kOut[1].key)

\* C24. Insert return value: Insert(k, v) returns the value stored under k
\* before the call when k was present and none when it was not, and Len()
\* grows by one exactly when k was not present.
C24_InsertReturn ==
    [][(kOut' # <<>> /\ kOut'[1].op = "Insert" /\ kHist' # kHist) =>
          /\ kOut'[1].old = LastInsert(kHist, kOut'[1].key)
          /\ kOut'[1].len = kList.numEntries
                               + (IF LastInsert(kHist, kOut'[1].key) = <<>> THEN 1
                                  ELSE 0)]_vars

\* the keys of the Insert calls hist
InsertedKeys(hist) == {hist[i].key : i \in 1..Len(hist)}

\* C25. Skiplist iteration order: after any sequence of Insert calls, the walk
\* from Iterate() with Next() visits every inserted key exactly once, in
\* strictly ascending key order (so it starts at the smallest), and ends.
C25_IterationOrder ==
    (kOut # <<>> /\ kOut[1].op = "Iterate") =>
        /\ {kOut[1].keys[i] : i \in 1..Len(kOut[1].keys)} = InsertedKeys(kHist)
        /\ \A i \in 1..(Len(kOut[1].keys) - 1) :
              StrLess(kOut[1].keys[i], kOut[1].keys[i + 1])

\* C25, its case: a walk over the keys of a list whose node of the greatest
\* key was inserted first and has the most levels, after the Insert of a
\* smaller key and a second Insert of one of the two
C25_Witness ==
    /\ kOut # <<>>
    /\ kOut[1].op = "Iterate"
    /\ Len(kOut[1].keys) = 2
    /\ Len(kHist) = 3
    /\ StrLess(kHist[2].key, kHist[1].key)
    /\ Len(kList.nodes[2].next) > Len(kList.nodes[3].next)

\* the sum of len(value.data) over the entries elems of a skiplist
RECURSIVE SumOfValues(_)
SumOfValues(elems) ==
    IF elems = <<>> THEN 0
    ELSE Len(Head(elems).value.data) + SumOfValues(Tail(elems))

\* C26. Memtable size accounting: in every reachable state of a memtable
\* chunk (after construction with WAL replay, after any sequence of set calls
\* with new keys and overwrites by shorter or longer values) size() is the sum
\* of len(value) over the entries in the skiplist, and the counter has not
\* wrapped below zero.
C26_SizeAccounting ==
    cChunk # <<>> =>
        /\ cChunk[1].dataSize >= 0
        /\ cChunk[1].dataSize = SumOfValues(cChunk[1].list.elems)

\* the lines of a WAL file from position i on, separator left out
RECURSIVE WalLines(_, _)
WalLines(f, i) ==
    IF i > Len(f) THEN {}
    ELSE {SubSeq(f, i, ReadBytesEnd(f, i) - (IF f[ReadBytesEnd(f, i)] = entrySeparator
                                             THEN 1 ELSE 0))}
         \cup WalLines(f, ReadBytesEnd(f, i) + 1)

\* the file holds a record of key: a line that Write makes of an entry with
\* that key, or a line that LoadWAL reads as an entry with that key
HasRecord(f, key) ==
    \E line \in WalLines(f, 1) :
        \/ \E data \in ChunkData :
              line = jsonMarshal([Kind |-> RecordKindWrite, Key |-> key, Data |-> data])
        \/ /\ jsonUnmarshal(line).ok
           /\ jsonUnmarshal(line).entry.Key = key

\* C28. Write-ahead ordering in the memtable: set appends the record to the
\* WAL before it touches the skiplist. A set whose append fails returns the
\* error and leaves the skiplist, the entry count and dataSize as they were; a
\* set that returns no error has put its record at the end of the WAL; and in
\* every state each entry visible in the skiplist has a record in the WAL.
C28_WriteAheadOrdering ==
    /\ [][cOut'.n = cOut.n + 1 =>
            IF cOut'.err
            THEN cChunk' = cChunk /\ cFiles' = cFiles
            ELSE /\ Len(cFiles') > Len(cFiles)
                 /\ SubSeq(cFiles', 1, Len(cFiles)) = cFiles
                 /\ cFiles'[Len(cFiles')] = entrySeparator]_vars
    /\ [](cChunk # <<>> =>
            \A i \in 1..Len(cChunk[1].list.elems) :
                HasRecord(cFiles, cChunk[1].list.elems[i].key))

\* C28, its case: a set whose append failed has returned its error on a
\* memtable that holds entries of two earlier set calls
C28_Witness ==
    /\ cChunk # <<>>
    /\ cOut.op = "set"
    /\ cOut.err
    /\ cOut.n = 3
    /\ Len(cChunk[1].list.elems) = 2

\* the SSTable chunks that the manifest document file names
ManifestTables(file) ==
    UNION {{decodeManifest(file).Layers[i].Chunks[j].Name :
               j \in {k \in 1..Len(decodeManifest(file).Layers[i].Chunks) :
                        decodeManifest(file).Layers[i].Chunks[k].ChunkType
                            = chunkTypeSSTable}}
           : i \in LayerIdx}

\* C27. Open semantics: NewLsmTree makes a fresh empty tree only when lsm.json
\* is absent; when it exists the tree is rebuilt from it (same root, same
\* layers and chunks as it lists), and when a chunk it names cannot be opened
\* the caller gets an error instead of a fresh empty tree.
C27_OpenSemantics ==
    [][reopens' = reopens + 1 =>
          IF manifest = NoManifest
          THEN ~ret'.err /\ \A i \in LayerIdx : tree'.layers[i].chunks = <<>>
          ELSE IF \A n \in ManifestTables(manifest[1]) : sstFiles[n].exists
          THEN ~ret'.err /\ ManifestOf(tree') = manifest[1]
          ELSE ret'.err]_vars

\* the entries of an index file from offset off on: start offset and key of each
RECURSIVE IndexEntriesFrom(_, _)
IndexEntriesFrom(index, off) ==
    IF off + 24 > Len(index) THEN <<>>
    ELSE <<[off |-> off,
            key |-> SubSeq(index, off + 17,
                           off + 16 + Uint64(SubSeq(index, off + 9, off + 16)))]>>
         \o IndexEntriesFrom(index,
                             off + 24 + Uint64(SubSeq(index, off + 9, off + 16)))

\* the sparse index sp fits the entries es of the index: it starts at the
\* first entry, its offsets grow strictly, and every anchor is the start
\* offset and the key of an entry
AnchorsFit(sp, es) ==
    /\ sp # <<>>
    /\ sp[1] = [Key |-> es[1].key, Offset |-> 0]
    /\ \A i \in 1..(Len(sp) - 1) : sp[i].Offset < sp[i + 1].Offset
    /\ \A i \in 1..Len(sp) :
          \E j \in 1..Len(es) : es[j].off = sp[i].Offset /\ es[j].key = sp[i].Key

\* C29. Sparse index invariant: after any accepted sequence of Write calls
\* with at least one entry the sparse index is not empty, its first anchor is
\* (first key written, offset 0), the anchor offsets grow strictly and each is
\* the start offset of an index entry with the anchor's key; and an accepted
\* Write adds an anchor (its key, the index position before it) exactly when
\* there is no anchor yet or the index position is at least the block size
\* past the last anchor's offset.
C29_SparseIndex ==
    /\ []((bTbl # <<>> /\ bTbl[1].numEntries >= 1) =>
             AnchorsFit(bTbl[1].sparseIndex, IndexEntriesFrom(bTbl[1].index, 0)))
    /\ [][(bOut'.n = bOut.n + 1 /\ ~bOut'.err) =>
            IF \/ bTbl[1].sparseIndex = <<>>
               \/ bTbl[1].indexPosition
                     - bTbl[1].sparseIndex[Len(bTbl[1].sparseIndex)].Offset
                  >= bTbl[1].sparseIndexBlockSize
            THEN bTbl'[1].sparseIndex
                    = Append(bTbl[1].sparseIndex,
                             [Key |-> bOut'.key, Offset |-> bTbl[1].indexPosition])
            ELSE bTbl'[1].sparseIndex = bTbl[1].sparseIndex]_vars

\* C29, its case: four accepted writes to a builder with the small block
\* size have left two anchors, the second in the middle of the index
C29_Witness ==
    /\ bTbl # <<>>
    /\ bTbl[1].numEntries = 4
    /\ Len(bTbl[1].sparseIndex) = 2
    /\ bTbl[1].sparseIndex[2].Offset > 0
    /\ bTbl[1].sparseIndex[2].Offset < bTbl[1].indexPosition - 25

\* C30. SSTable key order: after any sequence of Write calls the keys of the
\* index are strictly ascending (so pairwise distinct); a Write whose key is
\* not greater than the last key of the index is rejected with an error and
\* leaves index, data, bloom filter and numEntries as they were.
C30_KeyOrder ==
    [][bOut'.n = bOut.n + 1 =>
          /\ \A es \in {IndexEntriesFrom(bTbl'[1].index, 0)} :
                \A i \in 1..(Len(es) - 1) : StrLess(es[i].key, es[i + 1].key)
          /\ \A es \in {IndexEntriesFrom(bTbl[1].index, 0)} :
                (es # <<>> /\ ~StrLess(es[Len(es)].key, bOut'.key)) =>
                    /\ bOut'.err
                    /\ bTbl'[1].index = bTbl[1].index
                    /\ bTbl'[1].data = bTbl[1].data
                    /\ bTbl'[1].filter = bTbl[1].filter
                    /\ bTbl'[1].numEntries = bTbl[1].numEntries]_vars

\* the places of a tree that hold a chunk: the root, and each index of each
\* layer's chunk list
ChunkPlaces(t) ==
    {<<0, 0>>} \cup
    UNION {{<<i + 1, j>> : j \in 1..Len(t.layers[i].chunks)} : i \in LayerIdx}

\* the chunk at a place
ChunkAt(t, p) == IF p[1] = 0 THEN t.rootChunk ELSE t.layers[p[1] - 1].chunks[p[2]]

\* C33. Chunk uniqueness: in every reachable state no chunk object appears
\* more than once among the root and the layers' chunk lists, and no two
\* distinct chunks among them have the same name.
C33_ChunkUniqueness ==
    \A p, q \in ChunkPlaces(tree) :
       p # q => /\ ChunkAt(tree, p).id # ChunkAt(tree, q).id
                /\ ChunkAt(tree, p).name # ChunkAt(tree, q).name

\* C31. Linked list link consistency: after any sequence of Insert,
\* InsertAfter, InsertBefore and Remove on nodes of the list, First().Prev()
\* is nil; for every node n reachable from First(), n.Next() is nil or
\* n.Next().Prev() is n, and n.Prev() is nil or n.Prev().Next() is n; and the
\* forward traversal is the sequence the same calls make of an abstract
\* sequence.
C31_ListLinks ==
    lList # <<>> =>
       /\ NodePrev(lList, lList.first) = 0
       /\ \A c \in {NodeChain(lList, lList.first, Len(lList.nodes) + 1)} :
             /\ Len(c) <= Len(lList.nodes)
             /\ \A k \in 1..Len(c) :
                   /\ NodeNext(lList, c[k]) = 0
                      \/ NodePrev(lList, NodeNext(lList, c[k])) = c[k]
                   /\ NodePrev(lList, c[k]) = 0
                      \/ NodeNext(lList, NodePrev(lList, c[k])) = c[k]
       /\ toArray(lList) = lOut.seq

\* C31, its case: a node that had a node on either side has been removed,
\* a call was made after that, and two nodes are left in the list
C31_Witness ==
    /\ lList # <<>>
    /\ lOut.n > 3
    /\ Len(lOut.seq) = 2
    /\ \E n \in 1..Len(lList.nodes) :
          /\ n < Len(lList.nodes)
          /\ lList.nodes[n].next # 0
          /\ lList.nodes[n].prev # 0
          /\ \A c \in {NodeChain(lList, lList.first, Len(lList.nodes))} :
                \A k \in 1..Len(c) : c[k] # n

\* C32. Rotation is never a visibility gap: with no compaction running, at
\* every intermediate step of a rotation inside Set the retiring memtable is
\* the root or layers[0].chunks[0], and a Get that runs concurrently with the
\* rotation never reports not-found for a key whose Set had completed.
C32_NoVisibilityGap ==
    rSet # <<>> =>
       /\ rSet.pc = "swap" =>
             \A id \in {rMem.root[Len(rMem.root)]} :
                \/ tree.rootChunk.id = id
                \/ /\ tree.layers[0].chunks # <<>>
                   /\ tree.layers[0].chunks[1].id = id
       /\ (rGet.pc = "done" /\ rGet.known) => rGet.exists

=============================================================================
